---- MODULE Spec2Model ----
(***************************************************************************)
(* A model of the ApolloOS kernel.  Memory subsystem: the stack frame      *)
(* allocator with its RAII frame handles (os/src/mm/frame_allocator.rs)    *)
(* and the three-level SV39 page table (os/src/mm/page_table.rs).  Tasks:  *)
(* the task table of os/src/task/mod.rs, the ready queue and processor of  *)
(* os/src/task/manager.rs and processor.rs, and the trap dispatcher of     *)
(* os/src/trap/mod.rs.                                                     *)
(*                                                                         *)
(* Physical memory is modelled per pool page as the words that are not     *)
(* zero: a page is a function from the indices of its non-zero 8-byte      *)
(* words to their values, and the page of 512 zero words is the function   *)
(* with the empty domain.  A page-table node and a data page are the same  *)
(* memory, as on the machine.                                              *)
(***************************************************************************)
EXTENDS Integers, Sequences, FiniteSets, TLC

VARIABLES
  FRAME_ALLOCATOR,  \* the StackFrameAllocator: [current, end, recycled]
  mem,              \* the contents of the pool's physical pages
  v,                \* the frame handles (FrameTracker) held by kernel clients
  test,             \* position of frame_allocator_test and what it observed
  page_table,       \* None, or Some([root_ppn, frames]) once PageTable::new ran
  panicked,         \* the kernel has panicked (and halted)
  ret,              \* the last operation, its argument and what it returned
  TASK_MANAGER,     \* task/mod.rs: [num_app, tasks, current_task]
  stvec,            \* where a trap enters: "kernel" (trap_from_kernel) or "user"
  timer_armed,      \* a timer deadline is programmed and has not fired yet
  exit_code,        \* per task of the table, the code it was terminated with
  last_trap,        \* the last trap: its cause and the calls its handler made
  ready_queue,      \* task/manager.rs: the VecDeque of runnable tasks
  PROCESSOR,        \* task/processor.rs: [current]
  tcbs,             \* the task control blocks the ready queue refers to
  dispatched,       \* the tasks run_tasks dispatched, oldest first
  trap_cx,          \* the trap-context pages: location -> saved registers
  trap_cx_ppn,      \* where the current task's trap context lives
  borrowed,         \* per UPSafeCell, the RefMut guards that are outstanding
  cell_log,         \* the last guard operation or __switch, and its cells
  layout,           \* the kernel image: the page numbers of the linker symbols
  KERNEL_SPACE,     \* None, or Some(MemorySet) once the kernel space is built
  apps              \* per application, what TaskControlBlock::new produced

memVars == <<FRAME_ALLOCATOR, mem, v, test, page_table>>
tableVars == <<TASK_MANAGER, stvec, timer_armed, exit_code, last_trap>>
queueVars == <<ready_queue, PROCESSOR, tcbs, dispatched>>
cxVars == <<trap_cx, trap_cx_ppn>>
cellVars == <<borrowed, cell_log>>
spaceVars == <<layout, KERNEL_SPACE, apps>>
restVars == <<cellVars, spaceVars>>
taskVars == <<tableVars, queueVars, cxVars, restVars>>
vars == <<FRAME_ALLOCATOR, mem, v, test, page_table, panicked, ret,
          TASK_MANAGER, stvec, timer_armed, exit_code, last_trap,
          ready_queue, PROCESSOR, tcbs, dispatched, trap_cx, trap_cx_ppn,
          borrowed, cell_log, layout, KERNEL_SPACE, apps>>

(***************************************************************************)
(* Bounds of the model and constants of the program.                       *)
(***************************************************************************)
\* number of physical pages between ekernel and MEMORY_END
MaxFrames == 4
\* the calls on the page table take the virtual page numbers VpnAt(0..MaxVpn)
MaxVpn == 7
\* the largest N the generalised frame_allocator_test is run with
MaxTestN == 3

PAGE_SIZE == 4096
PAGE_SIZE_BITS == 12
\* PhysAddr::from(MEMORY_END).floor(): 0x80800000 / 0x1000
MEMORY_END_PPN == 526336
\* entries of one page-table node, and the width of one index
PTE_PER_PAGE == 512
\* the factor of "ppn << 10" in a page-table entry
PTE_PPN_SHIFT == 1024
\* PTEFlags
PTE_V == 1
PTE_R == 2
PTE_W == 4
PTE_X == 8
PTE_U == 16

\* Option<T>
None == <<>>
Some(x) == <<x>>
IsSome(o) == o # None
Unwrap(o) == o[1]

Last(s) == s[Len(s)]
Front(s) == SubSeq(s, 1, Len(s) - 1)
Range(s) == {s[i] : i \in DOMAIN s}
RemoveAt(s, i) == SubSeq(s, 1, i - 1) \o SubSeq(s, i + 1, Len(s))

\* the pool [ekernel.ceil(), MEMORY_END.floor()) handed to init
PoolEnd == MEMORY_END_PPN
PoolStart == PoolEnd - MaxFrames
Pool == PoolStart .. (PoolEnd - 1)

(***************************************************************************)
(* Physical pages.                                                         *)
(***************************************************************************)
ZeroPage == [i \in {} |-> 0]
ReadWord(m, ppn, i) == IF i \in DOMAIN m[ppn] THEN m[ppn][i] ELSE 0
PageWith(p, i, w) ==
  IF w = 0 THEN [j \in DOMAIN p \ {i} |-> p[j]]
  ELSE [j \in DOMAIN p \cup {i} |-> IF j = i THEN w ELSE p[j]]
WriteWord(m, ppn, i, w) == [m EXCEPT ![ppn] = PageWith(m[ppn], i, w)]
PageIsZero(m, ppn) == DOMAIN m[ppn] = {}

\* a word a previous owner may leave behind: it reads as a valid page-table
\* entry pointing at the first page of the pool
GarbageWord == PoolStart * PTE_PPN_SHIFT + PTE_V
GarbagePage == [i \in 0 .. MaxVpn |-> GarbageWord]

(***************************************************************************)
(* StackFrameAllocator                                                     *)
(***************************************************************************)
\* StackFrameAllocator::new followed by init(l, r)
AllocatorInit(l, r) == [current |-> l, end |-> r, recycled |-> <<>>]

\* a faulty alloc that hands out the top of the recycled stack without popping it
alloc_nopop(a) ==
  IF a.recycled # <<>>
  THEN [a |-> a, ppn |-> Some(Last(a.recycled))]
  ELSE IF a.current = a.end
       THEN [a |-> a, ppn |-> None]
       ELSE [a |-> [a EXCEPT !.current = a.current + 1], ppn |-> Some(a.current)]

\* a faulty alloc that bumps the cursor first and falls back on the recycled stack
alloc_cursor_first(a) ==
  IF a.current # a.end
  THEN [a |-> [a EXCEPT !.current = a.current + 1], ppn |-> Some(a.current)]
  ELSE IF a.recycled # <<>>
       THEN [a |-> [a EXCEPT !.recycled = Front(a.recycled)],
             ppn |-> Some(Last(a.recycled))]
       ELSE [a |-> a, ppn |-> None]

\* StackFrameAllocator::alloc: the allocator afterwards and the page returned
alloc(a) ==
  IF a.recycled # <<>>
  THEN [a |-> [a EXCEPT !.recycled = Front(a.recycled)],
        ppn |-> Some(Last(a.recycled))]
  ELSE IF a.current = a.end
       THEN [a |-> a, ppn |-> None]
       ELSE [a |-> [a EXCEPT !.current = a.current + 1], ppn |-> Some(a.current)]

\* a faulty validity check that forgets to look for the page in the recycled list
dealloc_panics_nodup(a, ppn) == ppn >= a.current

\* the validity check of StackFrameAllocator::dealloc
dealloc_panics(a, ppn) ==
  ppn >= a.current \/ \E i \in DOMAIN a.recycled : a.recycled[i] = ppn

\* a faulty dealloc that forgets to put the page on the recycled list
dealloc_norecycle(a, ppn) ==
  IF dealloc_panics(a, ppn)
  THEN [a |-> a, panic |-> TRUE]
  ELSE [a |-> a, panic |-> FALSE]

\* StackFrameAllocator::dealloc: the allocator afterwards and whether it panicked
dealloc(a, ppn) ==
  IF dealloc_panics(a, ppn)
  THEN [a |-> a, panic |-> TRUE]
  ELSE [a |-> [a EXCEPT !.recycled = Append(a.recycled, ppn)], panic |-> FALSE]

\* a faulty FrameTracker::new that skips the page cleaning
FrameTracker_new_noclean(m, ppn) == m

\* FrameTracker::new: memory after the page cleaning
FrameTracker_new(m, ppn) == [m EXCEPT ![ppn] = ZeroPage]

\* frame_alloc: alloc, then FrameTracker::new on the page if there is one
frame_alloc(a, m) ==
  LET r == alloc(a) IN
  [a |-> r.a, ppn |-> r.ppn,
   mem |-> IF IsSome(r.ppn) THEN FrameTracker_new(m, Unwrap(r.ppn)) ELSE m]

NoRet == [op |-> "none", arg |-> 0, val |-> None, dirty |-> FALSE]
TestIdle == [phase |-> "idle", n |-> 0, tv |-> <<>>, first |-> {}, cursor |-> 0]

\* the task subsystem before any task is admitted
NoTrap == [scause |-> "none", calls |-> <<>>, vecs |-> <<>>]
NoCx == [sepc |-> 0, x10 |-> 0, x11 |-> 0, x12 |-> 0, x17 |-> 0]
\* the exclusive-access cells of the kernel; a task's inner state is a cell
PROCESSOR_CELL == <<"PROCESSOR", 0>>
TASK_MANAGER_CELL == <<"TASK_MANAGER", 0>>
KERNEL_SPACE_CELL == <<"KERNEL_SPACE", 0>>
FRAME_ALLOCATOR_CELL == <<"FRAME_ALLOCATOR", 0>>
NoCellOp == [op |-> "none", cell |-> <<"none", 0>>, tasks |-> {}, held |-> {}]
RestIdle ==
  /\ cell_log = NoCellOp
  /\ layout = <<>>
  /\ KERNEL_SPACE = <<>>
  /\ apps = <<>>
TasksIdle ==
  /\ TASK_MANAGER = [num_app |-> 0, tasks |-> <<>>, current_task |-> 0]
  /\ stvec = "kernel"
  /\ timer_armed = FALSE
  /\ exit_code = <<>>
  /\ last_trap = NoTrap
  /\ ready_queue = <<>>
  /\ PROCESSOR = [current |-> None]
  /\ tcbs = <<>>
  /\ dispatched = <<>>
  /\ trap_cx = <<>>
  /\ trap_cx_ppn = 0
  /\ borrowed = <<>>
  /\ RestIdle

Init ==
  /\ TasksIdle
  /\ FRAME_ALLOCATOR = AllocatorInit(PoolStart, PoolEnd)
  /\ mem \in {[p \in Pool |-> ZeroPage], [p \in Pool |-> GarbagePage]}
  /\ v = <<>>
  /\ test = TestIdle
  /\ page_table = None
  /\ panicked = FALSE
  /\ ret = NoRet

(***************************************************************************)
(* Kernel clients of the frame allocator.                                  *)
(***************************************************************************)
\* let frame = frame_alloc(); the handle, if any, is kept in v
FrameAlloc ==
  /\ ~panicked /\ test.phase = "idle"
  /\ LET r == frame_alloc(FRAME_ALLOCATOR, mem) IN
       /\ FRAME_ALLOCATOR' = r.a
       /\ mem' = r.mem
       /\ v' = IF IsSome(r.ppn) THEN Append(v, Unwrap(r.ppn)) ELSE v
       /\ ret' = [op |-> "frame_alloc", arg |-> 0, val |-> r.ppn,
                  dirty |-> IsSome(r.ppn) /\ ~PageIsZero(mem, Unwrap(r.ppn))]
  /\ UNCHANGED <<test, page_table, panicked, taskVars>>

\* drop of the i-th handle: Drop for FrameTracker calls frame_dealloc(self.ppn)
FrameDrop(i) ==
  /\ ~panicked /\ test.phase = "idle"
  /\ i \in DOMAIN v
  /\ LET r == dealloc(FRAME_ALLOCATOR, v[i]) IN
       /\ FRAME_ALLOCATOR' = r.a
       /\ panicked' = r.panic
       /\ v' = RemoveAt(v, i)
       /\ ret' = [op |-> "drop", arg |-> v[i], val |-> None, dirty |-> FALSE]
  /\ UNCHANGED <<mem, test, page_table, taskVars>>

\* the owner of the i-th handle fills its page with data of its own
FrameWrite(i) ==
  /\ ~panicked /\ test.phase = "idle"
  /\ i \in DOMAIN v
  /\ mem' = [mem EXCEPT ![v[i]] = GarbagePage]
  /\ ret' = [op |-> "write", arg |-> v[i], val |-> None, dirty |-> FALSE]
  /\ UNCHANGED <<FRAME_ALLOCATOR, v, test, page_table, panicked, taskVars>>

ClientNext ==
  \/ FrameAlloc
  \/ \E i \in 1 .. MaxFrames : FrameDrop(i)
  \/ \E i \in 1 .. MaxFrames : FrameWrite(i)

(***************************************************************************)
(* frame_allocator_test, with its 5 replaced by any n and its v.clear()    *)
(* by drops of the handles in any order.                                   *)
(***************************************************************************)
TestStart(n) ==
  /\ ~panicked /\ test.phase = "idle"
  /\ test' = [phase |-> "alloc1", n |-> n, tv |-> <<>>, first |-> {}, cursor |-> 0]
  /\ ret' = [op |-> "test", arg |-> n, val |-> None, dirty |-> FALSE]
  /\ UNCHANGED <<FRAME_ALLOCATOR, mem, v, page_table, panicked, taskVars>>

\* one round of a loop: let frame = frame_alloc().unwrap(); v.push(frame);
TestAlloc ==
  /\ ~panicked /\ test.phase \in {"alloc1", "alloc2"}
  /\ Len(test.tv) < test.n
  /\ LET r == frame_alloc(FRAME_ALLOCATOR, mem) IN
       /\ FRAME_ALLOCATOR' = r.a
       /\ mem' = r.mem
       /\ panicked' = ~IsSome(r.ppn)
       /\ test' = IF IsSome(r.ppn)
                  THEN [test EXCEPT !.tv = Append(test.tv, Unwrap(r.ppn))]
                  ELSE test
       /\ ret' = [op |-> "frame_alloc", arg |-> 0, val |-> r.ppn,
                  dirty |-> IsSome(r.ppn) /\ ~PageIsZero(mem, Unwrap(r.ppn))]
  /\ UNCHANGED <<v, page_table, taskVars>>

\* the first loop is over: the release of the handles begins
TestFirstDone ==
  /\ ~panicked /\ test.phase = "alloc1"
  /\ Len(test.tv) = test.n
  /\ test' = [test EXCEPT !.phase = "release", !.first = Range(test.tv)]
  /\ ret' = [op |-> "test", arg |-> test.n, val |-> None, dirty |-> FALSE]
  /\ UNCHANGED <<FRAME_ALLOCATOR, mem, v, page_table, panicked, taskVars>>

\* release of one of the handles
TestDrop(i) ==
  /\ ~panicked /\ test.phase \in {"release", "drop"}
  /\ i \in DOMAIN test.tv
  /\ LET r == dealloc(FRAME_ALLOCATOR, test.tv[i]) IN
       /\ FRAME_ALLOCATOR' = r.a
       /\ panicked' = r.panic
       /\ test' = [test EXCEPT !.tv = RemoveAt(test.tv, i)]
       /\ ret' = [op |-> "drop", arg |-> test.tv[i], val |-> None, dirty |-> FALSE]
  /\ UNCHANGED <<mem, v, page_table, taskVars>>

\* all handles are released: the second loop begins
TestSecond ==
  /\ ~panicked /\ test.phase = "release"
  /\ test.tv = <<>>
  /\ test' = [test EXCEPT !.phase = "alloc2", !.cursor = FRAME_ALLOCATOR.current]
  /\ ret' = [op |-> "test", arg |-> test.n, val |-> None, dirty |-> FALSE]
  /\ UNCHANGED <<FRAME_ALLOCATOR, mem, v, page_table, panicked, taskVars>>

\* the second loop is over: drop(v) follows
TestSecondDone ==
  /\ ~panicked /\ test.phase = "alloc2"
  /\ Len(test.tv) = test.n
  /\ test' = [test EXCEPT !.phase = "drop"]
  /\ ret' = [op |-> "test", arg |-> test.n, val |-> None, dirty |-> FALSE]
  /\ UNCHANGED <<FRAME_ALLOCATOR, mem, v, page_table, panicked, taskVars>>

\* frame_allocator_test passed
TestEnd ==
  /\ ~panicked /\ test.phase = "drop"
  /\ test.tv = <<>>
  /\ test' = TestIdle
  /\ ret' = [op |-> "test", arg |-> test.n, val |-> None, dirty |-> FALSE]
  /\ UNCHANGED <<FRAME_ALLOCATOR, mem, v, page_table, panicked, taskVars>>

TestNext ==
  \/ \E n \in 0 .. MaxTestN : TestStart(n)
  \/ TestAlloc
  \/ TestFirstDone
  \/ \E i \in 1 .. MaxTestN : TestDrop(i)
  \/ TestSecond
  \/ TestSecondDone
  \/ TestEnd

Next == ClientNext \/ TestNext

Spec == Init /\ [][Next]_vars

(***************************************************************************)
(* The bare StackFrameAllocator, driven with any page number.              *)
(***************************************************************************)
StackAlloc ==
  /\ ~panicked
  /\ LET r == alloc(FRAME_ALLOCATOR) IN
       /\ FRAME_ALLOCATOR' = r.a
       /\ ret' = [op |-> "alloc", arg |-> 0, val |-> r.ppn, dirty |-> FALSE]
  /\ UNCHANGED <<mem, v, test, page_table, panicked, taskVars>>

StackDealloc(ppn) ==
  /\ ~panicked
  /\ LET r == dealloc(FRAME_ALLOCATOR, ppn) IN
       /\ FRAME_ALLOCATOR' = r.a
       /\ panicked' = r.panic
       /\ ret' = [op |-> "dealloc", arg |-> ppn, val |-> None, dirty |-> FALSE]
  /\ UNCHANGED <<mem, v, test, page_table, taskVars>>

StackNext ==
  \/ StackAlloc
  \/ \E ppn \in (PoolStart - 1) .. PoolEnd : StackDealloc(ppn)

SpecStack == Init /\ [][StackNext]_vars

(***************************************************************************)
(* Page-table entries and the page table.                                  *)
(***************************************************************************)
\* PTEFlags: (flags & bit) != PTEFlags::empty(), and flags | bit, for one bit
HasFlag(flags, bit) == (flags \div bit) % 2 = 1
WithFlag(flags, bit) == IF HasFlag(flags, bit) THEN flags ELSE flags + bit

\* PageTableEntry::new: ppn.0 << 10 | flags.bits; the flags are a u8, below the
\* ten bits the shift leaves clear, so the or of the two is their sum
PageTableEntry_new(ppn, flags) == ppn * PTE_PPN_SHIFT + flags
\* PageTableEntry::empty
PageTableEntry_empty == 0
\* PageTableEntry::ppn: (bits >> 10) & (2^44 - 1); every word of the model is
\* below 2^31, so the mask keeps all of its bits
pte_ppn(bits) == bits \div PTE_PPN_SHIFT
\* PageTableEntry::flags: bits as u8
pte_flags(bits) == bits % 256
\* PageTableEntry::is_valid
is_valid(bits) == HasFlag(pte_flags(bits), PTE_V)

\* VirtPageNum::indexes: three 9-bit indices, highest first
indexes(vpn) ==
  <<(vpn \div (PTE_PER_PAGE * PTE_PER_PAGE)) % PTE_PER_PAGE,
    (vpn \div PTE_PER_PAGE) % PTE_PER_PAGE,
    vpn % PTE_PER_PAGE>>

\* one round (i = 0 or 1) of the loop of find_pte: the node to go on with
find_pte_step(m, node, idx) ==
  IF node = None THEN None
  ELSE LET pte == ReadWord(m, Unwrap(node), idx) IN
       IF is_valid(pte) THEN Some(pte_ppn(pte)) ELSE None

\* PageTable::find_pte: the place <<node page, index>> of the leaf entry, or None
find_pte(m, root_ppn, vpn) ==
  LET idxs == indexes(vpn)
      n1 == find_pte_step(m, Some(root_ppn), idxs[1])
      n2 == find_pte_step(m, n1, idxs[2]) IN
  IF n2 = None THEN None ELSE Some(<<Unwrap(n2), idxs[3]>>)

\* a faulty round of find_pte_create that gives every entry a fresh node
\* frame, the valid ones too
find_pte_create_step_eager(w, idx) ==
  IF w.panic THEN w
  ELSE LET r == frame_alloc(w.a, w.mem) IN
       IF ~IsSome(r.ppn) THEN [w EXCEPT !.panic = TRUE]
       ELSE LET new == PageTableEntry_new(Unwrap(r.ppn), PTE_V) IN
            [a |-> r.a,
             mem |-> WriteWord(r.mem, w.node, idx, new),
             frames |-> Append(w.frames, Unwrap(r.ppn)),
             node |-> pte_ppn(new),
             panic |-> FALSE]

\* one round (i = 0 or 1) of the loop of find_pte_create on the state
\* w = [a, mem, frames, node, panic]: an invalid entry gets a fresh node frame
find_pte_create_step(w, idx) ==
  IF w.panic THEN w
  ELSE LET pte == ReadWord(w.mem, w.node, idx) IN
       IF is_valid(pte) THEN [w EXCEPT !.node = pte_ppn(pte)]
       ELSE LET r == frame_alloc(w.a, w.mem) IN
            IF ~IsSome(r.ppn) THEN [w EXCEPT !.panic = TRUE]
            ELSE LET new == PageTableEntry_new(Unwrap(r.ppn), PTE_V) IN
                 [a |-> r.a,
                  mem |-> WriteWord(r.mem, w.node, idx, new),
                  frames |-> Append(w.frames, Unwrap(r.ppn)),
                  node |-> pte_ppn(new),
                  panic |-> FALSE]

\* PageTable::find_pte_create: allocator, memory and frames afterwards, the place
\* of the leaf entry, and whether a frame_alloc().unwrap() on the way panicked
find_pte_create(a, m, pt, vpn) ==
  LET idxs == indexes(vpn)
      w0 == [a |-> a, mem |-> m, frames |-> pt.frames, node |-> pt.root_ppn,
             panic |-> FALSE]
      w1 == find_pte_create_step(w0, idxs[1])
      w2 == find_pte_create_step(w1, idxs[2]) IN
  [a |-> w2.a, mem |-> w2.mem,
   pt |-> [pt EXCEPT !.frames = w2.frames],
   panic |-> w2.panic,
   pte |-> IF w2.panic THEN None ELSE Some(<<w2.node, idxs[3]>>)]

\* PageTable::new
PageTable_new(a, m) ==
  LET r == frame_alloc(a, m) IN
  IF ~IsSome(r.ppn)
  THEN [a |-> a, mem |-> m, pt |-> None, panic |-> TRUE]
  ELSE [a |-> r.a, mem |-> r.mem, panic |-> FALSE,
        pt |-> Some([root_ppn |-> Unwrap(r.ppn), frames |-> <<Unwrap(r.ppn)>>])]

\* a faulty map without the assertion on the leaf entry
map_noassert(a, m, pt, vpn, ppn, flags) ==
  LET r == find_pte_create(a, m, pt, vpn) IN
  IF r.panic THEN [a |-> r.a, mem |-> r.mem, pt |-> r.pt, panic |-> TRUE]
  ELSE LET at == Unwrap(r.pte) IN
       [a |-> r.a, pt |-> r.pt, panic |-> FALSE,
        mem |-> WriteWord(r.mem, at[1], at[2],
                          PageTableEntry_new(ppn, WithFlag(flags, PTE_V)))]

\* a faulty map that stores the flags without the valid bit
map_novalid(a, m, pt, vpn, ppn, flags) ==
  LET r == find_pte_create(a, m, pt, vpn) IN
  IF r.panic THEN [a |-> r.a, mem |-> r.mem, pt |-> r.pt, panic |-> TRUE]
  ELSE LET at == Unwrap(r.pte) IN
       IF is_valid(ReadWord(r.mem, at[1], at[2]))
       THEN [a |-> r.a, mem |-> r.mem, pt |-> r.pt, panic |-> TRUE]
       ELSE [a |-> r.a, pt |-> r.pt, panic |-> FALSE,
             mem |-> WriteWord(r.mem, at[1], at[2], PageTableEntry_new(ppn, flags))]

\* PageTable::map once find_pte_create has given r: the leaf entry must be
\* invalid, and is written
map_pte(r, ppn, flags) ==
  IF r.panic THEN [a |-> r.a, mem |-> r.mem, pt |-> r.pt, panic |-> TRUE]
  ELSE LET at == Unwrap(r.pte) IN
       IF is_valid(ReadWord(r.mem, at[1], at[2]))
       THEN [a |-> r.a, mem |-> r.mem, pt |-> r.pt, panic |-> TRUE]
       ELSE [a |-> r.a, pt |-> r.pt, panic |-> FALSE,
             mem |-> WriteWord(r.mem, at[1], at[2],
                               PageTableEntry_new(ppn, WithFlag(flags, PTE_V)))]

\* PageTable::map
map(a, m, pt, vpn, ppn, flags) ==
  map_pte(find_pte_create(a, m, pt, vpn), ppn, flags)

\* a faulty unmap that checks the leaf entry and forgets to clear it
unmap_nowrite(m, pt, vpn) ==
  LET at == find_pte(m, pt.root_ppn, vpn) IN
  IF at = None THEN [mem |-> m, panic |-> TRUE]
  ELSE IF ~is_valid(ReadWord(m, Unwrap(at)[1], Unwrap(at)[2]))
       THEN [mem |-> m, panic |-> TRUE]
       ELSE [mem |-> m, panic |-> FALSE]

\* a faulty unmap without the assertion on the leaf entry
unmap_noassert(m, pt, vpn) ==
  LET at == find_pte(m, pt.root_ppn, vpn) IN
  IF at = None THEN [mem |-> m, panic |-> TRUE]
  ELSE [mem |-> WriteWord(m, Unwrap(at)[1], Unwrap(at)[2], PageTableEntry_empty),
        panic |-> FALSE]

\* PageTable::unmap
unmap(m, pt, vpn) ==
  LET at == find_pte(m, pt.root_ppn, vpn) IN
  IF at = None THEN [mem |-> m, panic |-> TRUE]
  ELSE IF ~is_valid(ReadWord(m, Unwrap(at)[1], Unwrap(at)[2]))
       THEN [mem |-> m, panic |-> TRUE]
       ELSE [mem |-> WriteWord(m, Unwrap(at)[1], Unwrap(at)[2], PageTableEntry_empty),
             panic |-> FALSE]

\* a faulty translate that walks with find_pte_create
translate_create(a, m, pt, vpn) ==
  LET r == find_pte_create(a, m, pt, vpn) IN
  [a |-> r.a, mem |-> r.mem, pt |-> r.pt, panic |-> r.panic,
   val |-> IF r.pte = None THEN None
           ELSE Some(ReadWord(r.mem, Unwrap(r.pte)[1], Unwrap(r.pte)[2]))]

\* PageTable::translate: a copy of the leaf entry find_pte finds, or None
translate(a, m, pt, vpn) ==
  LET at == find_pte(m, pt.root_ppn, vpn) IN
  [a |-> a, mem |-> m, pt |-> pt, panic |-> FALSE,
   val |-> IF at = None THEN None
           ELSE Some(ReadWord(m, Unwrap(at)[1], Unwrap(at)[2]))]

\* the drop of the Vec<FrameTracker> of a page table: its frames in order
RECURSIVE drop_frames(_, _)
drop_frames(a, frames) ==
  IF frames = <<>> THEN [a |-> a, panic |-> FALSE]
  ELSE LET r == dealloc(a, Head(frames)) IN
       IF r.panic THEN r ELSE drop_frames(r.a, Tail(frames))

(***************************************************************************)
(* The owner of a page table.                                              *)
(***************************************************************************)
\* the virtual page numbers, physical page numbers and flags of the calls
\* the k-th of them has the indexes <<k / 4, (k / 2) mod 2, k mod 2>>: pages that
\* share both nodes of the walk, only the first, or none
VpnAt(k) ==
  (k \div 4) * PTE_PER_PAGE * PTE_PER_PAGE + ((k \div 2) % 2) * PTE_PER_PAGE + (k % 2)
VPNs == {VpnAt(k) : k \in 0 .. MaxVpn}
MapArgs ==
  {<<PoolStart - 1, PTE_R + PTE_W>>,
   <<PoolStart, PTE_R + PTE_X + PTE_U + PTE_V>>}

PTNew ==
  /\ ~panicked /\ page_table = None
  /\ LET r == PageTable_new(FRAME_ALLOCATOR, mem) IN
       /\ FRAME_ALLOCATOR' = r.a
       /\ mem' = r.mem
       /\ page_table' = r.pt
       /\ panicked' = r.panic
       /\ ret' = [op |-> "new", arg |-> 0, val |-> None, dirty |-> FALSE]
  /\ UNCHANGED <<v, test, taskVars>>

PTMap(vpn, ppn, flags) ==
  /\ ~panicked /\ IsSome(page_table)
  /\ LET r == map(FRAME_ALLOCATOR, mem, Unwrap(page_table), vpn, ppn, flags) IN
       /\ FRAME_ALLOCATOR' = r.a
       /\ mem' = r.mem
       /\ page_table' = Some(r.pt)
       /\ panicked' = r.panic
       /\ ret' = [op |-> "map", arg |-> 0, val |-> None, dirty |-> FALSE]
  /\ UNCHANGED <<v, test, taskVars>>

PTUnmap(vpn) ==
  /\ ~panicked /\ IsSome(page_table)
  /\ LET r == unmap(mem, Unwrap(page_table), vpn) IN
       /\ mem' = r.mem
       /\ panicked' = r.panic
       /\ ret' = [op |-> "unmap", arg |-> 0, val |-> None, dirty |-> FALSE]
  /\ UNCHANGED <<FRAME_ALLOCATOR, v, test, page_table, taskVars>>

PTTranslate(vpn) ==
  /\ ~panicked /\ IsSome(page_table)
  /\ LET r == translate(FRAME_ALLOCATOR, mem, Unwrap(page_table), vpn) IN
       /\ FRAME_ALLOCATOR' = r.a
       /\ mem' = r.mem
       /\ page_table' = Some(r.pt)
       /\ panicked' = r.panic
       /\ ret' = [op |-> "translate", arg |-> 0, val |-> r.val, dirty |-> FALSE]
  /\ UNCHANGED <<v, test, taskVars>>

\* the page table goes out of scope
PTDrop ==
  /\ ~panicked /\ IsSome(page_table)
  /\ LET r == drop_frames(FRAME_ALLOCATOR, Unwrap(page_table).frames) IN
       /\ FRAME_ALLOCATOR' = r.a
       /\ panicked' = r.panic
       /\ page_table' = None
       /\ ret' = [op |-> "drop_table", arg |-> 0, val |-> None, dirty |-> FALSE]
  /\ UNCHANGED <<mem, v, test, taskVars>>

PTNext ==
  \/ PTNew
  \/ \E vpn \in VPNs, pf \in MapArgs : PTMap(vpn, pf[1], pf[2])
  \/ \E vpn \in VPNs : PTUnmap(vpn)
  \/ \E vpn \in VPNs : PTTranslate(vpn)

SpecPT == Init /\ [][PTNext]_vars

(***************************************************************************)
(* Claims about the frame allocator.                                       *)
(***************************************************************************)
\* every frame handle alive: the clients', the test's and the page table's
LiveHandles ==
  v \o test.tv \o (IF IsSome(page_table) THEN Unwrap(page_table).frames ELSE <<>>)

\* C1: whatever frame_alloc calls and FrameTracker drops happened, no two frame
\* handles that are alive at the same time hold the same physical page number.
C1_SingleOwnership ==
  \A i, j \in DOMAIN LiveHandles : i # j => LiveHandles[i] # LiveHandles[j]

\* two handles are alive and the last frame_alloc handed out a recycled page
C1_Witness ==
  /\ Len(v) >= 2
  /\ ret.op = "frame_alloc" /\ IsSome(ret.val)
  /\ Unwrap(ret.val) # FRAME_ALLOCATOR.current - 1

\* C2: after n allocations and the release of all n handles in any order, the
\* next n allocations return exactly the same set of page numbers, and none of
\* them is taken from the cursor.
C2_SameFramesAgain ==
  (test.phase = "alloc2" /\ Len(test.tv) = test.n) =>
    /\ Range(test.tv) = test.first
    /\ Cardinality(test.first) = test.n
    /\ FRAME_ALLOCATOR.current = test.cursor

\* the second loop of the test is over for n >= 2, and it got the pages in
\* another order than the first loop did (the order is kept in nothing else,
\* so this asks for some order unlike the ascending one)
C2_Witness ==
  /\ test.phase = "alloc2" /\ Len(test.tv) = test.n /\ test.n >= 2
  /\ \E i \in 1 .. (test.n - 1) : test.tv[i] > test.tv[i + 1]

\* C3: alloc pops the recycled list whenever it is not empty and leaves the
\* cursor alone; otherwise, if the cursor is below the end, it returns the
\* cursor and moves it up by exactly one; it returns no frame exactly when the
\* recycled list is empty and the cursor is at the end, and changes nothing then.
C3_AllocPolicy ==
  [][ret'.op = "alloc" =>
       LET a == FRAME_ALLOCATOR
           b == FRAME_ALLOCATOR' IN
       /\ (a.recycled # <<>>) =>
            /\ ret'.val = Some(a.recycled[Len(a.recycled)])
            /\ b.recycled = SubSeq(a.recycled, 1, Len(a.recycled) - 1)
            /\ b.current = a.current /\ b.end = a.end
       /\ (a.recycled = <<>> /\ a.current < a.end) =>
            /\ ret'.val = Some(a.current)
            /\ b.current = a.current + 1
            /\ b.recycled = <<>> /\ b.end = a.end
       /\ (ret'.val = None) <=> (a.recycled = <<>> /\ a.current = a.end)
       /\ (ret'.val = None) => b = a
  ]_vars

\* alloc returned no frame: the pool is used up and nothing is recycled
C3_Witness ==
  /\ ret.op = "alloc" /\ ret.val = None
  /\ FRAME_ALLOCATOR.current = FRAME_ALLOCATOR.end

RecycledNoDup ==
  \A i, j \in DOMAIN FRAME_ALLOCATOR.recycled :
    i # j => FRAME_ALLOCATOR.recycled[i] # FRAME_ALLOCATOR.recycled[j]

\* C4: dealloc(ppn) panics whenever ppn is at or above the cursor or already in
\* the recycled list, and changes nothing then; only otherwise is ppn appended
\* to the recycled list; so the list never holds a page number twice.
C4_DeallocChecked ==
  /\ []RecycledNoDup
  /\ [][ret'.op = "dealloc" =>
         LET a == FRAME_ALLOCATOR
             b == FRAME_ALLOCATOR'
             ppn == ret'.arg IN
         IF ppn >= a.current \/ ppn \in Range(a.recycled)
         THEN panicked' /\ b = a
         ELSE ~panicked' /\ b = [a EXCEPT !.recycled = a.recycled \o <<ppn>>]
     ]_vars

\* a double free: dealloc of a page below the cursor that is in the recycled list
C4_Witness ==
  /\ panicked /\ ret.op = "dealloc"
  /\ ret.arg < FRAME_ALLOCATOR.current
  /\ ret.arg \in Range(FRAME_ALLOCATOR.recycled)

\* C5: the page of every frame handle frame_alloc returns is all zero when it
\* is handed out, also when an earlier owner wrote to it and released it.
C5_FramesAreZeroed ==
  (ret.op = "frame_alloc" /\ IsSome(ret.val)) => PageIsZero(mem, Unwrap(ret.val))

\* frame_alloc handed out a recycled page that its earlier owner left non-zero
C5_Witness ==
  /\ ret.op = "frame_alloc" /\ IsSome(ret.val) /\ ret.dirty
  /\ Unwrap(ret.val) # FRAME_ALLOCATOR.current - 1

(***************************************************************************)
(* Claims about the page table.                                            *)
(***************************************************************************)
\* what translate(vpn) returns in the current state and in the next one
Translated(vpn) ==
  translate(FRAME_ALLOCATOR, mem, Unwrap(page_table), vpn).val
TranslatedNext(vpn) ==
  translate(FRAME_ALLOCATOR', mem', Unwrap(page_table'), vpn).val
Mapped(vpn) ==
  /\ IsSome(page_table)
  /\ IsSome(Translated(vpn))
  /\ is_valid(Unwrap(Translated(vpn)))

\* a page table on which nothing was mapped yet
FreshTable ==
  /\ IsSome(page_table)
  /\ Len(Unwrap(page_table).frames) = 1
  /\ PageIsZero(mem, Unwrap(page_table).root_ppn)

\* C6 as claimed: on a fresh table, map(vpn, ppn, flags) followed by
\* translate(vpn) returns an entry with page number ppn and flags flags | V, and
\* translate of every other vpn returns what it returned before the map.
C6_Original ==
  [][\A vpn \in VPNs, pf \in MapArgs :
       (FreshTable /\ PTMap(vpn, pf[1], pf[2]) /\ ~panicked') =>
         /\ IsSome(TranslatedNext(vpn))
         /\ pte_ppn(Unwrap(TranslatedNext(vpn))) = pf[1]
         /\ pte_flags(Unwrap(TranslatedNext(vpn))) = WithFlag(pf[2], PTE_V)
         /\ \A o \in VPNs \ {vpn} : TranslatedNext(o) = Translated(o)
  ]_vars

\* C6, amended: map(vpn, ppn, flags) followed by translate(vpn) returns an entry
\* with page number ppn and flags flags | V; translate of any other vpn returns
\* the entry it returned before, except that where it returned none it may now
\* return an empty (invalid) entry, the nodes on its walk having been created.
C6_MapThenTranslate ==
  [][\A vpn \in VPNs, pf \in MapArgs :
       (PTMap(vpn, pf[1], pf[2]) /\ ~panicked') =>
         /\ IsSome(TranslatedNext(vpn))
         /\ pte_ppn(Unwrap(TranslatedNext(vpn))) = pf[1]
         /\ pte_flags(Unwrap(TranslatedNext(vpn))) = WithFlag(pf[2], PTE_V)
         /\ \A o \in VPNs \ {vpn} :
              IF IsSome(Translated(o))
              THEN TranslatedNext(o) = Translated(o)
              ELSE TranslatedNext(o) \in {None, Some(PageTableEntry_empty)}
  ]_vars

\* a map went through, and beside a mapped page there is one that translates
\* to an empty entry and one that translates to none
C6_Witness ==
  /\ ret.op = "map" /\ ~panicked
  /\ \E x, y, z \in VPNs :
       /\ Mapped(x)
       /\ Translated(y) = Some(PageTableEntry_empty)
       /\ Translated(z) = None

\* C7 as claimed: for a mapped vpn, unmap(vpn) followed by translate(vpn)
\* returns none.
C7_Original ==
  [][\A vpn \in VPNs :
       (Mapped(vpn) /\ PTUnmap(vpn)) => TranslatedNext(vpn) = None
  ]_vars

\* C7, amended: for a mapped vpn, unmap(vpn) does not panic, and translate(vpn)
\* after it returns the empty entry (all bits zero, so not valid) rather than none.
C7_UnmapThenTranslate ==
  [][\A vpn \in VPNs :
       (Mapped(vpn) /\ PTUnmap(vpn)) =>
         /\ ~panicked'
         /\ TranslatedNext(vpn) = Some(PageTableEntry_empty)
         /\ ~is_valid(Unwrap(TranslatedNext(vpn)))
  ]_vars

\* an unmap went through while another page stays mapped
C7_Witness ==
  /\ ret.op = "unmap" /\ ~panicked
  /\ \E x, y \in VPNs : Mapped(x) /\ Translated(y) = Some(PageTableEntry_empty)

\* C8: map of a vpn whose leaf entry is valid panics, and the mapping the vpn
\* has (and all of memory) is left as it was.
C8_MapTwiceRejected ==
  [][\A vpn \in VPNs, pf \in MapArgs :
       (Mapped(vpn) /\ PTMap(vpn, pf[1], pf[2])) =>
         /\ panicked'
         /\ TranslatedNext(vpn) = Translated(vpn)
         /\ mem' = mem
  ]_vars

\* a map panicked although a frame was left: the vpn was mapped already
C8_Witness ==
  /\ ret.op = "map" /\ panicked
  /\ FRAME_ALLOCATOR.current < FRAME_ALLOCATOR.end
  /\ \E x \in VPNs : Mapped(x)

\* C9: unmap of a vpn that is not mapped panics, be it that the leaf entry is
\* there and invalid or that a node on the walk is missing, and no entry of
\* the table is modified.
C9_UnmapUnmappedRejected ==
  [][\A vpn \in VPNs :
       (PTUnmap(vpn) /\ ~Mapped(vpn)) =>
         /\ panicked'
         /\ mem' = mem
         /\ page_table' = page_table
         /\ FRAME_ALLOCATOR' = FRAME_ALLOCATOR
  ]_vars

\* an unmap panicked in a table that has both kinds of unmapped pages
C9_Witness ==
  /\ ret.op = "unmap" /\ panicked
  /\ \E x, y \in VPNs :
       Translated(x) = None /\ Translated(y) = Some(PageTableEntry_empty)

\* C10: translate(vpn) changes nothing: no node frame is allocated, no entry is
\* written, the frames of the table and the allocator stay as they are, and
\* what it returns is a copy of the leaf entry, or none.
C10_TranslateReadOnly ==
  [][\A vpn \in VPNs :
       PTTranslate(vpn) =>
         /\ mem' = mem
         /\ page_table' = page_table
         /\ FRAME_ALLOCATOR' = FRAME_ALLOCATOR
         /\ ~panicked'
         /\ \/ ret'.val = None
            \/ \E node \in Range(Unwrap(page_table).frames) :
                 ret'.val = Some(ReadWord(mem, node, indexes(vpn)[3]))
  ]_vars

\* translate returned none for a page whose walk ends at a missing node
C10_Witness ==
  /\ ret.op = "translate" /\ ret.val = None
  /\ \E x \in VPNs : Mapped(x)

(***************************************************************************)
(* The task table (os/src/task/mod.rs) and the trap dispatcher             *)
(* (os/src/trap/mod.rs).  A task is an index into TASK_MANAGER.tasks; a    *)
(* task control block keeps its status and its saved TaskContext, which is *)
(* 0 for the context goto_trap_return builds and otherwise names the       *)
(* register snapshot __switch stored.                                      *)
(***************************************************************************)
\* the largest number of applications linked into the kernel
MaxApp == 3
SYSCALL_WRITE == 64
SYSCALL_EXIT == 93

\* TaskControlBlock::new: Ready, with the context that returns to trap_return
TaskControlBlock_new == [task_status |-> "Ready", task_cx |-> 0]

\* the lazy_static initialiser of TASK_MANAGER
TaskManager_new(num_app) ==
  [num_app |-> num_app,
   tasks |-> [i \in 0 .. num_app - 1 |-> TaskControlBlock_new],
   current_task |-> 0]

\* __switch(current_task_cx_ptr, next_task_cx_ptr): the running registers are
\* stored into the current task's context and the next one's are loaded
switch(tm, current, regs) == [tm EXCEPT !.tasks[current].task_cx = regs]

run_first_task(tm) == [tm EXCEPT !.tasks[0].task_status = "Running"]

mark_current_suspended(tm) ==
  [tm EXCEPT !.tasks[tm.current_task].task_status = "Ready"]

mark_current_exited(tm) ==
  [tm EXCEPT !.tasks[tm.current_task].task_status = "Exited"]

find_next_task_any(tm) == Some((tm.current_task + 1) % tm.num_app)

\* a faulty find_next_task that scans the table from its first entry
find_next_task_from_zero(tm) ==
  LET ready == {id \in 0 .. tm.num_app - 1 : tm.tasks[id].task_status = "Ready"}
  IN  IF ready = {} THEN None
      ELSE Some(CHOOSE id \in ready : \A j \in ready : id <= j)

\* the first Ready task after the current one, in circular order
find_next_task(tm) ==
  LET ready == {k \in 1 .. tm.num_app :
                  tm.tasks[(tm.current_task + k) % tm.num_app].task_status = "Ready"}
  IN  IF ready = {} THEN None
      ELSE Some((tm.current_task
                   + CHOOSE k \in ready : \A j \in ready : k <= j) % tm.num_app)

\* run_next_task: [tm, panicked]
run_next_task_keep(tm, regs) ==
  LET found == find_next_task(tm) IN
  IF IsSome(found)
  THEN LET next == Unwrap(found)
           current == tm.current_task
       IN  [tm |-> switch([tm EXCEPT !.tasks[next].task_status = "Running"],
                          current, regs),
            panicked |-> FALSE]
  ELSE [tm |-> tm, panicked |-> TRUE]

run_next_task(tm, regs) ==
  LET found == find_next_task(tm) IN
  IF IsSome(found)
  THEN LET next == Unwrap(found)
           current == tm.current_task
       IN  [tm |-> switch([tm EXCEPT !.tasks[next].task_status = "Running",
                                      !.current_task = next],
                          current, regs),
            panicked |-> FALSE]
  ELSE [tm |-> tm, panicked |-> TRUE]

(***************************************************************************)
(* The kernel state a trap handler works on, k, is the record of the task  *)
(* table, the trap vector, the timer, the exit codes, the panic flag and   *)
(* the calls the handler has made so far.  A step that follows a panic is  *)
(* not executed.                                                           *)
(***************************************************************************)
KState ==
  [tm |-> TASK_MANAGER, stvec |-> stvec, timer_armed |-> timer_armed,
   exit_code |-> exit_code, panicked |-> panicked, calls |-> <<>>,
   vecs |-> <<>>]

\* a call the handler makes, and where the trap vector points during it
Call(k, name) ==
  [k EXCEPT !.calls = Append(@, name), !.vecs = Append(@, k.stvec)]

\* lang_items.rs: report, then shutdown()
panic(k) == [Call(k, "panic") EXCEPT !.panicked = TRUE]

set_kernel_trap_entry(k) == [k EXCEPT !.stvec = "kernel"]
set_user_trap_entry(k) == [k EXCEPT !.stvec = "user"]

\* timer.rs: set_timer(get_time() + CLOCK_FREQ / TICKS_PER_SEC)
set_next_trigger(k) ==
  [Call(k, "set_next_trigger") EXCEPT !.timer_armed = TRUE]

suspend_current_and_run_next(k0, regs) ==
  LET k == Call(k0, "suspend_current_and_run_next")
      r == run_next_task(mark_current_suspended(k.tm), regs)
  IN  IF r.panicked THEN panic([k EXCEPT !.tm = r.tm])
      ELSE [k EXCEPT !.tm = r.tm]

\* the code the trap handler or sys_exit passes is kept for the task
record_exit_code(k, code) ==
  [k EXCEPT !.exit_code[k.tm.current_task] = Some(code)]

exit_current_and_run_next(k0, code, regs) ==
  LET k == record_exit_code(Call(k0, "exit_current_and_run_next"), code)
      r == run_next_task(mark_current_exited(k.tm), regs)
  IN  IF r.panicked THEN panic([k EXCEPT !.tm = r.tm])
      ELSE [k EXCEPT !.tm = r.tm]

\* syscall(id, args) as far as the task table is concerned: exit(code)
\* terminates the caller, every other call returns to it
syscall(k0, id, a0, regs) ==
  LET k == Call(k0, "syscall") IN
  IF id = SYSCALL_EXIT THEN exit_current_and_run_next(k, a0, regs) ELSE k

\* a faulty trap_return that leaves the trap vector as it is
trap_return_keepvec(k) ==
  IF k.panicked THEN k ELSE Call(k, "trap_return")

\* trap_return, run by the task that holds the processor when the handler
\* is left: the trapped task, or the task that was switched to
trap_return(k) ==
  IF k.panicked THEN k ELSE set_user_trap_entry(Call(k, "trap_return"))

MemFaults ==
  {"StoreFault", "StorePageFault", "InstructionFault",
   "InstructionPageFault", "LoadFault", "LoadPageFault"}
OtherCauses == {"Breakpoint", "SupervisorExternal"}
Causes ==
  {"UserEnvCall", "IllegalInstruction", "SupervisorTimer"}
    \cup MemFaults \cup OtherCauses

trap_handler_faultpanic(k0, scause, id, a0, regs) ==
  LET k == set_kernel_trap_entry(k0) IN
  trap_return(
    CASE scause = "UserEnvCall" -> syscall(k, id, a0, regs)
      [] scause \in MemFaults -> panic(k)
      [] scause = "IllegalInstruction" -> exit_current_and_run_next(k, -3, regs)
      [] scause = "SupervisorTimer" ->
           suspend_current_and_run_next(set_next_trigger(k), regs)
      [] OTHER -> panic(k))

trap_handler_samecode(k0, scause, id, a0, regs) ==
  LET k == set_kernel_trap_entry(k0) IN
  trap_return(
    CASE scause = "UserEnvCall" -> syscall(k, id, a0, regs)
      [] scause \in MemFaults -> exit_current_and_run_next(k, -2, regs)
      [] scause = "IllegalInstruction" -> exit_current_and_run_next(k, -2, regs)
      [] scause = "SupervisorTimer" ->
           suspend_current_and_run_next(set_next_trigger(k), regs)
      [] OTHER -> panic(k))

trap_handler_suspendfirst(k0, scause, id, a0, regs) ==
  LET k == set_kernel_trap_entry(k0) IN
  trap_return(
    CASE scause = "UserEnvCall" -> syscall(k, id, a0, regs)
      [] scause \in MemFaults -> exit_current_and_run_next(k, -2, regs)
      [] scause = "IllegalInstruction" -> exit_current_and_run_next(k, -3, regs)
      [] scause = "SupervisorTimer" ->
           set_next_trigger(suspend_current_and_run_next(k, regs))
      [] OTHER -> panic(k))

trap_handler_ignore(k0, scause, id, a0, regs) ==
  LET k == set_kernel_trap_entry(k0) IN
  trap_return(
    CASE scause = "UserEnvCall" -> syscall(k, id, a0, regs)
      [] scause \in MemFaults -> exit_current_and_run_next(k, -2, regs)
      [] scause = "IllegalInstruction" -> exit_current_and_run_next(k, -3, regs)
      [] scause = "SupervisorTimer" ->
           suspend_current_and_run_next(set_next_trigger(k), regs)
      [] OTHER -> k)

trap_handler(k0, scause, id, a0, regs) ==
  LET k == set_kernel_trap_entry(k0) IN
  trap_return(
    CASE scause = "UserEnvCall" -> syscall(k, id, a0, regs)
      [] scause \in MemFaults -> exit_current_and_run_next(k, -2, regs)
      [] scause = "IllegalInstruction" -> exit_current_and_run_next(k, -3, regs)
      [] scause = "SupervisorTimer" ->
           suspend_current_and_run_next(set_next_trigger(k), regs)
      [] OTHER -> panic(k))

\* trap_from_kernel: a trap while stvec points into the kernel
trap_from_kernel(k) == panic(k)

\* the state rust_main leaves before it starts the first task: trap::init,
\* enable_timer_interrupt, set_next_trigger
MemBooted ==
  /\ FRAME_ALLOCATOR = AllocatorInit(PoolStart, PoolEnd)
  /\ mem = [p \in Pool |-> ZeroPage]
  /\ v = <<>>
  /\ test = TestIdle
  /\ page_table = None
  /\ panicked = FALSE
  /\ ret = NoRet
  /\ RestIdle

InitTrap ==
  /\ MemBooted
  /\ \E n \in 1 .. MaxApp :
       /\ TASK_MANAGER = TaskManager_new(n)
       /\ exit_code = [i \in 0 .. n - 1 |-> None]
  /\ stvec = "kernel"
  /\ timer_armed = TRUE
  /\ last_trap = NoTrap
  /\ ready_queue = <<>>
  /\ PROCESSOR = [current |-> None]
  /\ tcbs = <<>>
  /\ dispatched = <<>>
  /\ trap_cx = <<>>
  /\ trap_cx_ppn = 0
  /\ borrowed = <<>>

SetK(k, scause) ==
  /\ TASK_MANAGER' = k.tm
  /\ stvec' = k.stvec
  /\ timer_armed' = k.timer_armed
  /\ exit_code' = k.exit_code
  /\ panicked' = k.panicked
  /\ last_trap' = [scause |-> scause, calls |-> k.calls, vecs |-> k.vecs]
  /\ UNCHANGED <<memVars, ret, queueVars, cxVars, restVars>>

\* task::run_first_task(); task 0 starts in trap_return
RunFirstTask ==
  /\ ~panicked
  /\ stvec = "kernel"
  /\ TASK_MANAGER.num_app > 0
  /\ \A i \in DOMAIN TASK_MANAGER.tasks :
       TASK_MANAGER.tasks[i].task_status = "Ready"
  /\ SetK(trap_return([KState EXCEPT !.tm = run_first_task(TASK_MANAGER)]),
          "none")

\* the register snapshots __switch can store, and the codes of sys_exit
Regs == {1, 2}
ExitCodes == {0, 1}

\* a system call of the running task
TrapSyscall(id, a0, regs) ==
  /\ ~panicked
  /\ stvec = "user"
  /\ SetK(trap_handler(KState, "UserEnvCall", id, a0, regs), "UserEnvCall")

\* an exception of the running task
TrapException(scause, regs) ==
  /\ ~panicked
  /\ stvec = "user"
  /\ scause \in Causes \ {"UserEnvCall", "SupervisorTimer"}
  /\ SetK(trap_handler(KState, scause, 0, 0, regs), scause)

\* the timer deadline passes while a task runs
TrapTimer(regs) ==
  /\ ~panicked
  /\ stvec = "user"
  /\ timer_armed
  /\ SetK(trap_handler([KState EXCEPT !.timer_armed = FALSE],
                       "SupervisorTimer", 0, 0, regs), "SupervisorTimer")

\* an exception while the kernel itself runs
TrapFromKernel ==
  /\ ~panicked
  /\ stvec = "kernel"
  /\ TASK_MANAGER.num_app > 0
  /\ SetK(trap_from_kernel(KState), "kernel")

TrapNext ==
  \/ RunFirstTask
  \/ \E id \in {SYSCALL_WRITE, SYSCALL_EXIT}, a0 \in ExitCodes, regs \in Regs :
       TrapSyscall(id, a0, regs)
  \/ \E scause \in Causes, regs \in Regs : TrapException(scause, regs)
  \/ \E regs \in Regs : TrapTimer(regs)
  \/ TrapFromKernel

SpecTrap == InitTrap /\ [][TrapNext]_vars

(***************************************************************************)
(* Claims about the task table and the trap dispatcher.                    *)
(***************************************************************************)
Status(tm, i) == tm.tasks[i].task_status
Called(name) == name \in Range(last_trap.calls)

\* C11: a task becomes Exited only as the current task of a handler that
\* calls exit_current_and_run_next; an Exited task stays Exited, and no
\* later step selects it: find_next_task never returns it and it never
\* becomes the current task again.
C11_ExitedIsTerminal ==
  [][\A i \in DOMAIN TASK_MANAGER.tasks :
       /\ (Status(TASK_MANAGER, i) # "Exited" /\ Status(TASK_MANAGER', i) = "Exited")
            => /\ i = TASK_MANAGER.current_task
               /\ Called("exit_current_and_run_next")'
       /\ Status(TASK_MANAGER, i) = "Exited"
            => /\ Status(TASK_MANAGER', i) = "Exited"
               /\ find_next_task(TASK_MANAGER) # Some(i)
               /\ find_next_task(TASK_MANAGER') # Some(i)
               /\ TASK_MANAGER'.current_task = i
                    => TASK_MANAGER.current_task = i]_vars

\* a task has exited and a later timer interrupt has rescheduled the rest
C11_Witness ==
  /\ ~panicked
  /\ last_trap.scause = "SupervisorTimer"
  /\ \E i \in DOMAIN TASK_MANAGER.tasks : Status(TASK_MANAGER, i) = "Exited"
  /\ \E i \in DOMAIN TASK_MANAGER.tasks : Status(TASK_MANAGER, i) = "Ready"

RunningTasks(tm) == {i \in DOMAIN tm.tasks : Status(tm, i) = "Running"}

\* C12: in every reachable state at most one task of the table is Running,
\* and a Running task is the one recorded as current_task.
C12_OneRunning ==
  /\ Cardinality(RunningTasks(TASK_MANAGER)) <= 1
  /\ \A i \in RunningTasks(TASK_MANAGER) : i = TASK_MANAGER.current_task

\* a switch has happened: a task other than the first runs, next to a Ready one
C12_Witness ==
  /\ ~panicked
  /\ TASK_MANAGER.current_task # 0
  /\ RunningTasks(TASK_MANAGER) = {TASK_MANAGER.current_task}
  /\ \E i \in DOMAIN TASK_MANAGER.tasks : Status(TASK_MANAGER, i) = "Ready"

(***************************************************************************)
(* The ready queue (os/src/task/manager.rs) and the processor              *)
(* (os/src/task/processor.rs).  A task is the number of its control block  *)
(* in tcbs, standing for the Arc<TaskControlBlock> the queue and the       *)
(* processor hold.  PROCESSOR.idle is TRUE while the idle control flow of  *)
(* run_tasks holds the CPU and FALSE while a task does.                    *)
(***************************************************************************)
\* the largest number of task control blocks ever created
MaxTasks == 4
\* the number of dispatches of run_tasks whose order is recorded
MaxDispatch == 14

TaskManager_queue_new == <<>>
Processor_new == [current |-> None, idle |-> TRUE]

add_front(q, task) == <<task>> \o q

\* TaskManager::add: push_back
add(q, task) == Append(q, task)

fetch_back(q) ==
  IF q = <<>> THEN [task |-> None, q |-> q]
  ELSE [task |-> Some(Last(q)), q |-> Front(q)]

fetch_peek(q) ==
  IF q = <<>> THEN [task |-> None, q |-> q]
  ELSE [task |-> Some(Head(q)), q |-> q]

\* TaskManager::fetch: pop_front
fetch(q) ==
  IF q = <<>> THEN [task |-> None, q |-> q]
  ELSE [task |-> Some(Head(q)), q |-> Tail(q)]

\* Processor::take_current: Option::take
take_current(p) == [task |-> p.current, p |-> [p EXCEPT !.current = None]]

\* schedule: __switch(switched_task_cx_ptr, idle_task_cx_ptr)
schedule(p) == [p EXCEPT !.idle = TRUE]

\* a faulty run_tasks that switches to the task without recording it as the
\* processor's current task
run_tasks_nocurrent(q, p, tc) ==
  LET f == fetch(q) IN
  IF IsSome(f.task)
  THEN LET task == Unwrap(f.task) IN
       [q |-> f.q,
        p |-> [p EXCEPT !.idle = FALSE],
        tcbs |-> [tc EXCEPT ![task].task_status = "Running"],
        task |-> f.task]
  ELSE [q |-> f.q, p |-> p, tcbs |-> tc, task |-> f.task]

\* one turn of the loop of run_tasks: [q, p, tcbs, task]
run_tasks(q, p, tc) ==
  LET f == fetch(q) IN
  IF IsSome(f.task)
  THEN LET task == Unwrap(f.task) IN
       [q |-> f.q,
        p |-> [p EXCEPT !.current = Some(task), !.idle = FALSE],
        tcbs |-> [tc EXCEPT ![task].task_status = "Running"],
        task |-> f.task]
  ELSE [q |-> f.q, p |-> p, tcbs |-> tc, task |-> f.task]

\* a faulty suspend that marks the task Ready and does not queue it
suspend_queue_lost(q, p, tc) ==
  LET t == take_current(p)
      task == Unwrap(t.task)
  IN  [q |-> q,
       p |-> schedule(t.p),
       tcbs |-> [tc EXCEPT ![task].task_status = "Ready"]]

\* the current task gives up the CPU: it is taken from the processor,
\* marked Ready, added to the ready queue, and schedule() enters idle
suspend_queue(q, p, tc) ==
  LET t == take_current(p)
      task == Unwrap(t.task)
  IN  [q |-> add(q, task),
       p |-> schedule(t.p),
       tcbs |-> [tc EXCEPT ![task].task_status = "Ready"]]

\* the current task terminates: taken from the processor, marked Exited,
\* not added to the queue again, and schedule() enters idle
exit_queue(q, p, tc) ==
  LET t == take_current(p)
      task == Unwrap(t.task)
  IN  [q |-> q,
       p |-> schedule(t.p),
       tcbs |-> [tc EXCEPT ![task].task_status = "Exited"]]

\* the state rust_main leaves before run_tasks: add_initproc has created
\* the first task and added it to the ready queue
InitSched ==
  /\ MemBooted
  /\ TASK_MANAGER = [num_app |-> 0, tasks |-> <<>>, current_task |-> 0]
  /\ stvec = "kernel"
  /\ timer_armed = TRUE
  /\ exit_code = <<>>
  /\ last_trap = NoTrap
  /\ tcbs = <<TaskControlBlock_new>>
  /\ ready_queue = add(TaskManager_queue_new, 1)
  /\ PROCESSOR = Processor_new
  /\ dispatched = <<>>
  /\ trap_cx = <<>>
  /\ trap_cx_ppn = 0
  /\ borrowed = <<>>

SchedRet(op, val) == [op |-> op, arg |-> 0, val |-> val, dirty |-> FALSE]

\* the idle control flow runs the loop of run_tasks once; with record set,
\* the task it dispatches is appended to the history dispatched
RunTasks(record) ==
  /\ ~panicked
  /\ PROCESSOR.idle
  /\ record => Len(dispatched) < MaxDispatch
  /\ LET r == run_tasks(ready_queue, PROCESSOR, tcbs) IN
     /\ ready_queue' = r.q
     /\ PROCESSOR' = r.p
     /\ tcbs' = r.tcbs
     /\ dispatched' = IF record THEN dispatched \o r.task ELSE dispatched
     /\ ret' = SchedRet("fetch", r.task)
  /\ UNCHANGED <<memVars, panicked, tableVars, cxVars, restVars>>

\* the running task creates a task (fork) and add_task puts it in the queue
AddTask ==
  /\ ~panicked
  /\ ~PROCESSOR.idle
  /\ Len(tcbs) < MaxTasks
  /\ LET task == Len(tcbs) + 1 IN
     /\ tcbs' = Append(tcbs, TaskControlBlock_new)
     /\ ready_queue' = add(ready_queue, task)
     /\ ret' = SchedRet("add", Some(task))
  /\ UNCHANGED <<memVars, panicked, tableVars, PROCESSOR, dispatched, cxVars, restVars>>

\* the running task yields or is preempted
Suspend ==
  /\ ~panicked
  /\ ~PROCESSOR.idle
  /\ LET r == suspend_queue(ready_queue, PROCESSOR, tcbs) IN
     /\ ready_queue' = r.q
     /\ PROCESSOR' = r.p
     /\ tcbs' = r.tcbs
     /\ ret' = SchedRet("add", PROCESSOR.current)
  /\ UNCHANGED <<memVars, panicked, tableVars, dispatched, cxVars, restVars>>

\* the running task exits
Exit ==
  /\ ~panicked
  /\ ~PROCESSOR.idle
  /\ LET r == exit_queue(ready_queue, PROCESSOR, tcbs) IN
     /\ ready_queue' = r.q
     /\ PROCESSOR' = r.p
     /\ tcbs' = r.tcbs
     /\ ret' = SchedRet("exit", PROCESSOR.current)
  /\ UNCHANGED <<memVars, panicked, tableVars, dispatched, cxVars, restVars>>

SchedNext == RunTasks(FALSE) \/ AddTask \/ Suspend \/ Exit

SpecSched == InitSched /\ [][SchedNext]_vars

\* tasks are created only during the first dispatch and none exits: the
\* tasks T1..Tn are queued in that order and then only yield
RRNext == RunTasks(TRUE) \/ (AddTask /\ Len(dispatched) <= 1) \/ Suspend

SpecRR == InitSched /\ [][RRNext]_vars

(***************************************************************************)
(* Claims about the ready queue and the processor.                         *)
(***************************************************************************)
\* C13: the ready queue is strict FIFO.  fetch (in run_tasks) removes and
\* returns the head, and on an empty queue returns None and leaves it empty;
\* add (for a new task or the suspended one) appends at the tail; the tasks
\* already queued keep their order in every step.
C13_FifoQueue ==
  [][/\ RunTasks(FALSE) =>
          /\ ready_queue = <<>> => (ret'.val = None /\ ready_queue' = <<>>)
          /\ ready_queue # <<>> =>
               /\ ret'.val = Some(Head(ready_queue))
               /\ ready_queue' = Tail(ready_queue)
     /\ (AddTask \/ Suspend) =>
          /\ IsSome(ret'.val)
          /\ ready_queue' = ready_queue \o ret'.val
     /\ Exit => ready_queue' = ready_queue]_vars

\* fetch has just returned the head of a queue that held three tasks
C13_Witness ==
  /\ ret.op = "fetch"
  /\ IsSome(ret.val)
  /\ Len(ready_queue) >= 2
  /\ PROCESSOR.current = ret.val

\* C14: with tasks T1..Tn queued in that order and only yielding, the k-th
\* dispatch of run_tasks is T((k-1) mod n)+1, and any n consecutive
\* dispatches run every task exactly once.
C14_RoundRobin ==
  LET n == Len(tcbs) IN
  /\ \A k \in 1 .. Len(dispatched) : dispatched[k] = ((k - 1) % n) + 1
  /\ \A k \in 1 .. Len(dispatched) :
       k + n - 1 <= Len(dispatched)
         => {dispatched[j] : j \in k .. k + n - 1} = 1 .. n

\* three or more tasks have each been dispatched more than twice
C14_Witness ==
  /\ Len(tcbs) >= 3
  /\ Len(dispatched) > 2 * Len(tcbs)
  /\ ~PROCESSOR.idle

\* C15: in every reachable state no task is in the ready queue twice, the
\* processor's current task is not in the ready queue, and the Running task
\* of the queue's control blocks is exactly the processor's current task.
C15_QueueDistinct ==
  /\ \A i, j \in DOMAIN ready_queue : i # j => ready_queue[i] # ready_queue[j]
  /\ \A t \in Range(PROCESSOR.current) :
       /\ t \notin Range(ready_queue)
       /\ tcbs[t].task_status = "Running"
  /\ \A t \in DOMAIN tcbs :
       tcbs[t].task_status = "Running" => PROCESSOR.current = Some(t)

\* a task that was queued behind the first one runs while two others wait
C15_Witness ==
  /\ IsSome(PROCESSOR.current)
  /\ PROCESSOR.current # Some(1)
  /\ Len(ready_queue) >= 2
  /\ 1 \in Range(ready_queue)

FatalFaults == MemFaults \cup {"IllegalInstruction"}
TaskCx(tm, i) == tm.tasks[i].task_cx
\* the Ready tasks other than the current one
OtherReady(tm) ==
  {i \in DOMAIN tm.tasks : i # tm.current_task /\ Status(tm, i) = "Ready"}
\* how far task i is behind the current task in the circular order
Behind(tm, i) == (i + tm.num_app - tm.current_task) % tm.num_app

\* C16 as stated: a fatal fault of the running task leaves the status and
\* the saved context of every other task unchanged.
C16_Original ==
  [][\A scause \in FatalFaults \cap {last_trap'.scause}, regs \in Regs :
       TrapException(scause, regs) =>
         \A j \in DOMAIN TASK_MANAGER.tasks :
           j # TASK_MANAGER.current_task =>
             /\ Status(TASK_MANAGER', j) = Status(TASK_MANAGER, j)
             /\ TaskCx(TASK_MANAGER', j) = TaskCx(TASK_MANAGER, j)]_vars

\* C16 (amended): a fatal fault of the running task makes it Exited and
\* leaves the saved context of every other task unchanged; if another task
\* is Ready the kernel does not halt, the first Ready task after the
\* faulting one becomes Running and current, and the status of all the
\* remaining tasks is unchanged; otherwise the kernel panics.
C16_FaultTerminatesOnlyTask ==
  [][\A scause \in FatalFaults \cap {last_trap'.scause}, regs \in Regs :
       TrapException(scause, regs) =>
         LET tm == TASK_MANAGER
             cur == tm.current_task
             d == tm'.current_task
         IN  /\ Status(tm', cur) = "Exited"
             /\ \A j \in DOMAIN tm.tasks :
                  j # cur => TaskCx(tm', j) = TaskCx(tm, j)
             /\ OtherReady(tm) = {} => panicked'
             /\ OtherReady(tm) # {} =>
                  /\ ~panicked'
                  /\ d \in OtherReady(tm)
                  /\ \A j \in OtherReady(tm) : Behind(tm, d) <= Behind(tm, j)
                  /\ Status(tm', d) = "Running"
                  /\ \A j \in DOMAIN tm.tasks :
                       j \notin {cur, d} => Status(tm', j) = Status(tm, j)]_vars

\* a fault has terminated one task, a second one runs and a third waits
C16_Witness ==
  /\ ~panicked
  /\ last_trap.scause \in FatalFaults
  /\ \E i \in DOMAIN TASK_MANAGER.tasks :
       /\ Status(TASK_MANAGER, i) = "Exited"
       /\ exit_code[i] \in {Some(-2), Some(-3)}
  /\ \E i \in DOMAIN TASK_MANAGER.tasks : Status(TASK_MANAGER, i) = "Running"
  /\ \E i \in DOMAIN TASK_MANAGER.tasks :
       Status(TASK_MANAGER, i) = "Ready" /\ TaskCx(TASK_MANAGER, i) # 0

\* C17: a memory-access fault (store, load or instruction access fault or
\* page fault) terminates the current task with exit code -2 and an illegal
\* instruction with exit code -3; the two codes differ.
C17_FaultExitCodes ==
  [][\A scause \in FatalFaults \cap {last_trap'.scause}, regs \in Regs :
       TrapException(scause, regs) =>
         LET cur == TASK_MANAGER.current_task
             code == exit_code'[cur]
         IN  /\ Called("exit_current_and_run_next")'
             /\ scause \in MemFaults => code = Some(-2)
             /\ scause = "IllegalInstruction" => code = Some(-3)
             /\ \A other \in FatalFaults :
                  (other \in MemFaults) # (scause \in MemFaults)
                    => code # Some(IF other \in MemFaults THEN -2 ELSE -3)]_vars

\* one task was terminated by a page fault and another by an illegal
\* instruction
C17_Witness ==
  /\ last_trap.scause = "IllegalInstruction"
  /\ \E i, j \in DOMAIN TASK_MANAGER.tasks :
       /\ exit_code[i] = Some(-2)
       /\ exit_code[j] = Some(-3)
       /\ Status(TASK_MANAGER, i) = "Exited"
       /\ Status(TASK_MANAGER, j) = "Exited"

\* the position of a call among the calls of the last handler, 0 if absent
CallPos(calls, name) ==
  IF \E i \in DOMAIN calls : calls[i] = name
  THEN CHOOSE i \in DOMAIN calls : calls[i] = name
  ELSE 0

\* C19: the handler of a supervisor timer interrupt calls set_next_trigger
\* before suspend_current_and_run_next; the interrupted task goes from
\* Running to Ready and the next Ready task (the same one if there is no
\* other) is dispatched, and the timer is armed whenever the handler is left.
C19_RearmThenSuspend ==
  [][\A regs \in Regs :
       TrapTimer(regs) =>
         LET tm == TASK_MANAGER
             cur == tm.current_task
             d == tm'.current_task
             calls == last_trap'.calls
         IN  /\ CallPos(calls, "set_next_trigger") = 1
             /\ CallPos(calls, "suspend_current_and_run_next") = 2
             /\ timer_armed'
             /\ ~panicked'
             /\ Status(tm', d) = "Running"
             /\ d # cur => Status(tm', cur) = "Ready"
             /\ d = cur => OtherReady(tm) = {}
             /\ TaskCx(tm', cur) = regs]_vars

\* a timer interrupt has moved the processor from one task to another
C19_Witness ==
  /\ last_trap.scause = "SupervisorTimer"
  /\ timer_armed
  /\ TASK_MANAGER.current_task # 0
  /\ Status(TASK_MANAGER, 0) = "Ready"
  /\ TaskCx(TASK_MANAGER, 0) # 0

\* C20: a trap with a cause outside the handled ones, and a trap taken while
\* the kernel runs, make the kernel panic: no task is dispatched, trap_return
\* is not reached, and once the kernel has panicked nothing changes any more.
C20_OtherTrapsFatal ==
  [][/\ \A scause \in ({last_trap'.scause} \cap Causes)
                          \ (FatalFaults \cup {"UserEnvCall", "SupervisorTimer"}),
          regs \in Regs :
          TrapException(scause, regs) =>
            /\ panicked'
            /\ last_trap'.calls = <<"panic">>
            /\ stvec' = "kernel"
            /\ TASK_MANAGER' = TASK_MANAGER
     /\ TrapFromKernel =>
          /\ panicked'
          /\ last_trap'.calls = <<"panic">>
          /\ stvec' = "kernel"
          /\ TASK_MANAGER' = TASK_MANAGER
     /\ panicked => UNCHANGED vars]_vars

\* an unsupported trap has halted the kernel while another task was Ready
C20_Witness ==
  /\ panicked
  /\ last_trap.scause \in OtherCauses
  /\ \E i \in DOMAIN TASK_MANAGER.tasks : Status(TASK_MANAGER, i) = "Ready"
  /\ \E i \in DOMAIN TASK_MANAGER.tasks : Status(TASK_MANAGER, i) = "Running"

(***************************************************************************)
(* The system-call arm of trap_handler (os/src/trap/mod.rs, lines 53-64)   *)
(* as it acts on the saved registers.  trap_cx holds the pages a trap      *)
(* context can live in and trap_cx_ppn the page of the current task's one; *)
(* a register is a 64-bit word, scaled down to USIZE_MOD values.           *)
(***************************************************************************)
\* usize arithmetic is modulo this (2^64 on the machine)
USIZE_MOD == 65536
\* result as usize
as_usize(r) == r % USIZE_MOD

\* the pages a trap context is placed in, the values user code leaves in
\* x10..x12, the user program counters, the call numbers and the results
TrapCxPages == {0, 1}
RegVals == {0, 1}
UserPcs == {0, 4}
SyscallIds == {0, SYSCALL_WRITE, SYSCALL_EXIT}
Results == {0, 1, -1}

\* TrapContext::app_init_context: x = [0; 32], sepc = entry
app_init_context(entry) ==
  [sepc |-> entry, x10 |-> 0, x11 |-> 0, x12 |-> 0, x17 |-> 0]

\* what a system call can do to the trap contexts: return a result, return
\* after replacing the address space of the caller (which moves its trap
\* context to a fresh page), or, for exit, not return at all
SyscallOutcomes(id) ==
  IF id = SYSCALL_EXIT THEN {[kind |-> "exit", result |-> 0]}
  ELSE IF id = SYSCALL_WRITE
  THEN [kind : {"return"}, result : Results]
  ELSE [kind : {"return", "exec"}, result : Results]

syscall_cx(tc, ppn, id, args, o) ==
  CASE o.kind = "return" -> [tc |-> tc, ppn |-> ppn, result |-> Some(o.result)]
    [] o.kind = "exec" ->
         LET new == CHOOSE p \in TrapCxPages : p # ppn IN
         [tc |-> [tc EXCEPT ![new] = app_init_context(0)],
          ppn |-> new, result |-> Some(o.result)]
    [] OTHER -> [tc |-> tc, ppn |-> ppn, result |-> None]

\* current_trap_cx(): the trap context of the task that is current now
current_trap_cx(ppn) == ppn

trap_handler_cx_stale(tc0, ppn, o) ==
  LET cx == current_trap_cx(ppn)
      tc == [tc0 EXCEPT ![cx].sepc = as_usize(@ + 4)]
      call == [id |-> tc[cx].x17,
               args |-> <<tc[cx].x10, tc[cx].x11, tc[cx].x12>>,
               sepc |-> tc[cx].sepc]
      r == syscall_cx(tc, ppn, call.id, call.args, o)
  IN  IF IsSome(r.result)
      THEN [tc |-> [r.tc EXCEPT ![cx].x10 = as_usize(Unwrap(r.result))],
            ppn |-> r.ppn, call |-> call, result |-> r.result]
      ELSE [tc |-> r.tc, ppn |-> r.ppn, call |-> call, result |-> r.result]

\* lines 53-64: cx.sepc += 4; result = syscall(cx.x[17], [cx.x[10], cx.x[11],
\* cx.x[12]]); cx = current_trap_cx(); cx.x[10] = result as usize
trap_handler_cx(tc0, ppn, o) ==
  LET cx == current_trap_cx(ppn)
      tc == [tc0 EXCEPT ![cx].sepc = as_usize(@ + 4)]
      call == [id |-> tc[cx].x17,
               args |-> <<tc[cx].x10, tc[cx].x11, tc[cx].x12>>,
               sepc |-> tc[cx].sepc]
      r == syscall_cx(tc, ppn, call.id, call.args, o)
  IN  IF IsSome(r.result)
      THEN LET cx2 == current_trap_cx(r.ppn) IN
           [tc |-> [r.tc EXCEPT ![cx2].x10 = as_usize(Unwrap(r.result))],
            ppn |-> r.ppn, call |-> call, result |-> r.result]
      ELSE [tc |-> r.tc, ppn |-> r.ppn, call |-> call, result |-> r.result]

\* the first task is about to run: its trap context is the initial one
InitSyscall ==
  /\ MemBooted
  /\ TASK_MANAGER = [num_app |-> 0, tasks |-> <<>>, current_task |-> 0]
  /\ stvec = "user"
  /\ timer_armed = TRUE
  /\ exit_code = <<>>
  /\ last_trap = NoTrap
  /\ ready_queue = <<>>
  /\ PROCESSOR = [current |-> None]
  /\ tcbs = <<>>
  /\ dispatched = <<>>
  /\ trap_cx = [p \in TrapCxPages |-> app_init_context(0)]
  /\ trap_cx_ppn = 0
  /\ borrowed = <<>>

UserRegs == [sepc : UserPcs, x10 : RegVals, x11 : RegVals, x12 : RegVals,
             x17 : SyscallIds]

\* the running task executes ecall with the registers u: the trampoline
\* saves them in its trap context and trap_handler takes the system-call
\* arm; last_trap keeps u.  A task whose call did not return (exit) makes no
\* further call.
TrapUserEnvCall(u, o) ==
  /\ ~panicked
  /\ stvec = "user"
  /\ ret.val # None \/ ret.op # "syscall"
  /\ o \in SyscallOutcomes(u.x17)
  /\ LET r == trap_handler_cx([trap_cx EXCEPT ![trap_cx_ppn] = u],
                              trap_cx_ppn, o)
     IN  /\ trap_cx' = r.tc
         /\ trap_cx_ppn' = r.ppn
         /\ ret' = [op |-> "syscall", arg |-> r.call, val |-> r.result,
                    dirty |-> FALSE]
         /\ last_trap' = [scause |-> "UserEnvCall", calls |-> <<"syscall">>,
                          regs |-> u]
  /\ UNCHANGED <<memVars, panicked, TASK_MANAGER, stvec, timer_armed,
                 exit_code, queueVars, restVars>>

SyscallNext ==
  \E u \in UserRegs, o \in [kind : {"return", "exec", "exit"}, result : Results] :
    TrapUserEnvCall(u, o)

SpecSyscall == InitSyscall /\ [][SyscallNext]_vars

(***************************************************************************)
(* Claim about the system-call arm of the trap dispatcher.                 *)
(***************************************************************************)
\* C18: on a system call the dispatcher adds 4 to the saved sepc before it
\* calls syscall, passes x17 as the call number and x10, x11, x12 as the
\* arguments, and stores the result in x10 of the trap context that is
\* current after the call; every other saved register, in every trap
\* context, is as the call left it.  A call that does not return stores
\* nothing.
C18_SyscallDispatch ==
  [][ret'.op = "syscall" =>
       LET u == last_trap'.regs
           ppn == trap_cx_ppn
           advanced == [trap_cx EXCEPT ![ppn] = [u EXCEPT !.sepc = u.sepc + 4]]
           o == [kind |-> IF ret'.val = None THEN "exit"
                          ELSE IF trap_cx_ppn' # ppn THEN "exec" ELSE "return",
                 result |-> IF ret'.val = None THEN 0 ELSE Unwrap(ret'.val)]
           after == syscall_cx(advanced, ppn, u.x17, <<u.x10, u.x11, u.x12>>, o)
       IN  /\ ret'.arg = [id |-> u.x17, args |-> <<u.x10, u.x11, u.x12>>,
                          sepc |-> u.sepc + 4]
           /\ trap_cx_ppn' = after.ppn
           /\ IsSome(ret'.val) =>
                /\ trap_cx'[trap_cx_ppn'].x10 = as_usize(o.result)
                /\ trap_cx' = [after.tc EXCEPT ![after.ppn].x10 =
                                                 as_usize(o.result)]
           /\ ret'.val = None => trap_cx' = after.tc]_vars

\* a call that moved the trap context has returned -1: the result is in x10
\* of the new trap context and the old one does not hold it
C18_Witness ==
  /\ ret.op = "syscall"
  /\ ret.val = Some(-1)
  /\ trap_cx_ppn = 1
  /\ trap_cx[1].x10 = as_usize(-1)
  /\ trap_cx[0].x10 # as_usize(-1)
  /\ trap_cx[0].sepc = last_trap.regs.sepc + 4


(***************************************************************************)
(* UPSafeCell (os/src/sync/up.rs): a RefCell whose exclusive_access hands  *)
(* out a RefMut guard and panics when a guard of the same cell is still    *)
(* outstanding.  borrowed counts the outstanding guards of every cell.     *)
(* The guard state a kernel path works on, g, is the record of borrowed,   *)
(* the panic flag and the __switch the path has performed, if any; a step  *)
(* that follows a panic is not executed.                                   *)
(***************************************************************************)
\* the number of guards kernel code keeps outstanding at the same time
MaxHeld == 1

inner_cell(task) == <<"inner", task>>
GlobalCells ==
  {PROCESSOR_CELL, TASK_MANAGER_CELL, KERNEL_SPACE_CELL, FRAME_ALLOCATOR_CELL}
AllCells == GlobalCells \cup {inner_cell(t) : t \in 1 .. MaxTasks}
Held(b) == {c \in DOMAIN b : b[c] > 0}

GState == [borrowed |-> borrowed, panicked |-> FALSE, sw |-> None]

exclusive_access_unchecked(g, c) ==
  IF g.panicked THEN g
  ELSE [g EXCEPT !.borrowed[c] = @ + 1]

\* UPSafeCell::exclusive_access: RefCell::borrow_mut
exclusive_access(g, c) ==
  IF g.panicked THEN g
  ELSE IF g.borrowed[c] > 0 THEN [g EXCEPT !.panicked = TRUE]
  ELSE [g EXCEPT !.borrowed[c] = @ + 1]

\* the RefMut guard goes out of scope or is dropped by hand
drop_guard(g, c) ==
  IF g.panicked THEN g
  ELSE [g EXCEPT !.borrowed[c] = @ - 1]

\* __switch is called by fn on behalf of the tasks: the guards that are
\* outstanding at this moment stay so while another control flow runs
switch_guards(g, fn, tasks) ==
  IF g.panicked THEN g
  ELSE [g EXCEPT !.sw = Some([fn |-> fn, tasks |-> tasks,
                              held |-> Held(g.borrowed)])]

\* a temporary guard: CELL.exclusive_access().method()
with_guard(g, c) == drop_guard(exclusive_access(g, c), c)

\* task/mod.rs
run_first_task_guards(g) ==
  switch_guards(drop_guard(exclusive_access(g, TASK_MANAGER_CELL),
                           TASK_MANAGER_CELL),
                "run_first_task", {})

mark_current_suspended_guards(g) == with_guard(g, TASK_MANAGER_CELL)
mark_current_exited_guards(g) == with_guard(g, TASK_MANAGER_CELL)
find_next_task_guards(g) == with_guard(g, TASK_MANAGER_CELL)

run_next_task_guards(g, found) ==
  LET g1 == find_next_task_guards(g) IN
  IF IsSome(found)
  THEN switch_guards(drop_guard(exclusive_access(g1, TASK_MANAGER_CELL),
                                TASK_MANAGER_CELL),
                     "run_next_task", {})
  ELSE [g1 EXCEPT !.panicked = TRUE]

\* task/manager.rs and task/processor.rs
add_task_guards(g) == with_guard(g, TASK_MANAGER_CELL)
fetch_task_guards(g) == with_guard(g, TASK_MANAGER_CELL)
take_current_task_guards(g) == with_guard(g, PROCESSOR_CELL)

run_tasks_guards_nodrop(g, fetched) ==
  LET g1 == exclusive_access(g, PROCESSOR_CELL)
      g2 == fetch_task_guards(g1)
  IN  IF IsSome(fetched)
      THEN LET task == Unwrap(fetched)
               g3 == exclusive_access(g2, inner_cell(task))
               g4 == drop_guard(g3, inner_cell(task))
           IN  switch_guards(g4, "run_tasks", {task})
      ELSE drop_guard(g2, PROCESSOR_CELL)

\* one turn of the loop of run_tasks
run_tasks_guards(g, fetched) ==
  LET g1 == exclusive_access(g, PROCESSOR_CELL)
      g2 == fetch_task_guards(g1)
  IN  IF IsSome(fetched)
      THEN LET task == Unwrap(fetched)
               g3 == exclusive_access(g2, inner_cell(task))
               g4 == drop_guard(g3, inner_cell(task))
               g5 == drop_guard(g4, PROCESSOR_CELL)
           IN  switch_guards(g5, "run_tasks", {task})
      ELSE drop_guard(g2, PROCESSOR_CELL)

schedule_guards(g, tasks) ==
  switch_guards(drop_guard(exclusive_access(g, PROCESSOR_CELL), PROCESSOR_CELL),
                "schedule", tasks)

\* the current task gives up the CPU: its inner guard is released before
\* the task is queued and schedule() switches away
suspend_queue_guards(g, task) ==
  LET g1 == take_current_task_guards(g)
      g2 == exclusive_access(g1, inner_cell(task))
      g3 == drop_guard(g2, inner_cell(task))
      g4 == add_task_guards(g3)
  IN  schedule_guards(g4, {task})

\* the current task terminates: its inner guard is released before
\* schedule() switches away
exit_queue_guards(g, task) ==
  LET g1 == take_current_task_guards(g)
      g2 == exclusive_access(g1, inner_cell(task))
      g3 == drop_guard(g2, inner_cell(task))
  IN  schedule_guards(g3, {task})

suspend_current_and_run_next_guards(g, found) ==
  run_next_task_guards(mark_current_suspended_guards(g), found)

exit_current_and_run_next_guards(g, found) ==
  run_next_task_guards(mark_current_exited_guards(g), found)

\* current_user_token() of task/mod.rs, called by trap_return
get_current_token_guards(g) == with_guard(g, TASK_MANAGER_CELL)

\* current_user_token() of task/processor.rs: current_task(), then the
\* task's inner state
current_user_token_guards(g, task) ==
  with_guard(with_guard(g, PROCESSOR_CELL), inner_cell(task))

\* the cells a control flow resumed by this __switch goes on to acquire
SwitchCells(tasks) ==
  {PROCESSOR_CELL, TASK_MANAGER_CELL} \cup {inner_cell(t) : t \in tasks}

LogOf(g, fn) ==
  IF g.panicked
  THEN [op |-> "panic", cell |-> <<fn, 0>>, tasks |-> {},
        held |-> Held(g.borrowed)]
  ELSE IF IsSome(g.sw)
  THEN [op |-> "__switch", cell |-> <<Unwrap(g.sw).fn, 0>>,
        tasks |-> Unwrap(g.sw).tasks, held |-> Unwrap(g.sw).held]
  ELSE [op |-> "call", cell |-> <<fn, 0>>, tasks |-> {}, held |-> {}]

\* the kernel is built with the task table of task/mod.rs or with the ready
\* queue of task/manager.rs; no guard is outstanding when the tasks start
InitCell ==
  /\ MemBooted
  /\ borrowed = [c \in AllCells |-> 0]
  /\ stvec = "kernel"
  /\ timer_armed = TRUE
  /\ last_trap = NoTrap
  /\ dispatched = <<>>
  /\ trap_cx = <<>>
  /\ trap_cx_ppn = 0
  /\ \/ /\ \E n \in 1 .. MaxApp :
             /\ TASK_MANAGER = TaskManager_new(n)
             /\ exit_code = [i \in 0 .. n - 1 |-> None]
        /\ ready_queue = <<>>
        /\ PROCESSOR = [current |-> None]
        /\ tcbs = <<>>
     \/ /\ TASK_MANAGER = [num_app |-> 0, tasks |-> <<>>, current_task |-> 0]
        /\ exit_code = <<>>
        /\ tcbs = <<TaskControlBlock_new>>
        /\ ready_queue = add(TaskManager_queue_new, 1)
        /\ PROCESSOR = Processor_new

TableBuilt == TASK_MANAGER.num_app > 0
QueueBuilt == Len(tcbs) > 0
LiveCells == GlobalCells \cup {inner_cell(t) : t \in 1 .. Len(tcbs)}

\* a trap from user mode and the boot path find no kernel path under way:
\* a guard is a local of a function, and the kernel enters user mode or
\* the idle loop only when the functions that took guards have returned
NoKernelPath == Held(borrowed) = {}

\* kernel code takes a guard and keeps it
Acquire(c) ==
  /\ ~panicked
  /\ c \in LiveCells
  /\ borrowed[c] > 0 \/ Cardinality(Held(borrowed)) < MaxHeld
  /\ LET g == exclusive_access(GState, c) IN
     /\ borrowed' = g.borrowed
     /\ panicked' = g.panicked
     /\ cell_log' = [op |-> IF g.panicked THEN "panic" ELSE "exclusive_access",
                     cell |-> c, tasks |-> {}, held |-> Held(g.borrowed)]
  /\ UNCHANGED <<memVars, ret, tableVars, queueVars, cxVars, spaceVars>>

\* a guard kernel code kept is dropped
Release(c) ==
  /\ ~panicked
  /\ c \in AllCells
  /\ borrowed[c] > 0
  /\ LET g == drop_guard(GState, c) IN
     /\ borrowed' = g.borrowed
     /\ cell_log' = [op |-> "drop", cell |-> c, tasks |-> {},
                     held |-> Held(g.borrowed)]
  /\ UNCHANGED <<memVars, ret, panicked, tableVars, queueVars, cxVars, spaceVars>>

\* a handler of the task table ends with guard state g and kernel state k;
\* a panic halts the kernel where it is
SetTable(g, k, fn) ==
  /\ borrowed' = g.borrowed
  /\ cell_log' = LogOf(g, fn)
  /\ panicked' = (g.panicked \/ k.panicked)
  /\ IF g.panicked
     THEN UNCHANGED <<TASK_MANAGER, stvec, timer_armed, exit_code>>
     ELSE /\ TASK_MANAGER' = k.tm
          /\ stvec' = k.stvec
          /\ timer_armed' = k.timer_armed
          /\ exit_code' = k.exit_code
  /\ UNCHANGED <<memVars, ret, last_trap, queueVars, cxVars, spaceVars>>

CellRunFirstTask ==
  /\ ~panicked
  /\ NoKernelPath
  /\ TableBuilt
  /\ stvec = "kernel"
  /\ \A i \in DOMAIN TASK_MANAGER.tasks :
       TASK_MANAGER.tasks[i].task_status = "Ready"
  /\ SetTable(run_first_task_guards(GState),
              trap_return([KState EXCEPT !.tm = run_first_task(TASK_MANAGER)]),
              "run_first_task")

\* the timer interrupts the running task of the table
CellTrapTimer ==
  /\ ~panicked
  /\ NoKernelPath
  /\ TableBuilt
  /\ stvec = "user"
  /\ timer_armed
  /\ SetTable(suspend_current_and_run_next_guards(
                GState, find_next_task(mark_current_suspended(TASK_MANAGER))),
              trap_handler([KState EXCEPT !.timer_armed = FALSE],
                           "SupervisorTimer", 0, 0, 1),
              "suspend_current_and_run_next")

\* the running task of the table executes an illegal instruction
CellTrapFault ==
  /\ ~panicked
  /\ NoKernelPath
  /\ TableBuilt
  /\ stvec = "user"
  /\ SetTable(exit_current_and_run_next_guards(
                GState, find_next_task(mark_current_exited(TASK_MANAGER))),
              trap_handler(KState, "IllegalInstruction", 0, 0, 1),
              "exit_current_and_run_next")

\* a handler of the ready queue ends with guard state g and the queue,
\* processor and control blocks of r
SetQueue(g, r, fn) ==
  /\ borrowed' = g.borrowed
  /\ cell_log' = LogOf(g, fn)
  /\ panicked' = g.panicked
  /\ IF g.panicked
     THEN UNCHANGED <<ready_queue, PROCESSOR, tcbs>>
     ELSE /\ ready_queue' = r.q
          /\ PROCESSOR' = r.p
          /\ tcbs' = r.tcbs
  /\ UNCHANGED <<memVars, ret, tableVars, dispatched, cxVars, spaceVars>>

CellRunTasks ==
  /\ ~panicked
  /\ NoKernelPath
  /\ QueueBuilt
  /\ PROCESSOR.idle
  /\ SetQueue(run_tasks_guards(GState, fetch(ready_queue).task),
              run_tasks(ready_queue, PROCESSOR, tcbs), "run_tasks")

CellAddTask ==
  /\ ~panicked
  /\ NoKernelPath
  /\ QueueBuilt
  /\ ~PROCESSOR.idle
  /\ Len(tcbs) < MaxTasks
  /\ SetQueue(add_task_guards(GState),
              [q |-> add(ready_queue, Len(tcbs) + 1), p |-> PROCESSOR,
               tcbs |-> Append(tcbs, TaskControlBlock_new)],
              "add_task")

CellSuspend ==
  /\ ~panicked
  /\ NoKernelPath
  /\ QueueBuilt
  /\ ~PROCESSOR.idle
  /\ SetQueue(suspend_queue_guards(GState, Unwrap(PROCESSOR.current)),
              suspend_queue(ready_queue, PROCESSOR, tcbs),
              "suspend_current_and_run_next")

CellExit ==
  /\ ~panicked
  /\ NoKernelPath
  /\ QueueBuilt
  /\ ~PROCESSOR.idle
  /\ SetQueue(exit_queue_guards(GState, Unwrap(PROCESSOR.current)),
              exit_queue(ready_queue, PROCESSOR, tcbs),
              "exit_current_and_run_next")

\* the task a __switch has resumed goes on in trap_return, which asks for
\* the token of its address space
CellTrapReturn ==
  /\ ~panicked
  /\ cell_log.op = "__switch"
  /\ cell_log.cell[1] \in {"run_first_task", "run_next_task", "run_tasks"}
  /\ LET g == IF TableBuilt THEN get_current_token_guards(GState)
              ELSE current_user_token_guards(GState, Unwrap(PROCESSOR.current))
     IN  /\ borrowed' = g.borrowed
         /\ panicked' = g.panicked
         /\ cell_log' = LogOf(g, "trap_return")
  /\ UNCHANGED <<memVars, ret, tableVars, queueVars, cxVars, spaceVars>>

CellNext ==
  \/ \E c \in AllCells : Acquire(c)
  \/ \E c \in AllCells : Release(c)
  \/ CellRunFirstTask
  \/ CellTrapTimer
  \/ CellTrapFault
  \/ CellRunTasks
  \/ CellAddTask
  \/ CellSuspend
  \/ CellExit
  \/ CellTrapReturn

SpecCell == InitCell /\ [][CellNext]_vars

(***************************************************************************)
(* Claims about the exclusive-access cells.                                *)
(***************************************************************************)
\* C21: exclusive_access on a cell whose guard is still outstanding panics,
\* and so, as long as the kernel has not panicked, no cell has more than
\* one outstanding guard.
C21_ExclusiveGuards ==
  [][/\ \A c \in AllCells \cap {cell_log'.cell} :
          Acquire(c) /\ borrowed[c] > 0 => panicked'
     /\ ~panicked' => \A c \in AllCells : borrowed'[c] <= 1]_vars

\* a second exclusive_access on a borrowed cell has panicked
C21_Witness ==
  /\ panicked
  /\ cell_log.op = "panic"
  /\ cell_log.cell \in AllCells
  /\ borrowed[cell_log.cell] = 1

\* C22: whenever run_first_task, run_next_task, run_tasks or schedule calls
\* __switch, no guard of the processor, of the task manager or of the inner
\* state of the task switched from or to is outstanding, and what the
\* resumed control flow does next (trap_return in a task, the next turn of
\* run_tasks in the idle flow) acquires its cells without a panic.
C22_NoGuardAcrossSwitch ==
  [][/\ cell_log'.op = "__switch" =>
          /\ SwitchCells(cell_log'.tasks) \cap cell_log'.held = {}
          /\ \A c \in SwitchCells(cell_log'.tasks) : borrowed'[c] = 0
     /\ cell_log.op = "__switch" /\ CellTrapReturn => ~panicked'
     /\ cell_log.op = "__switch" /\ cell_log.cell[1] = "schedule"
          /\ CellRunTasks => ~panicked']_vars

\* a task dispatched by run_tasks has gone through trap_return
C22_Witness ==
  /\ ~panicked
  /\ cell_log.op = "call"
  /\ cell_log.cell[1] = "trap_return"
  /\ QueueBuilt
  /\ IsSome(PROCESSOR.current)


(***************************************************************************)
(* Addresses (os/src/mm/address.rs, os/src/config.rs).  A usize holds 64   *)
(* bits: it is kept as [hi, page, off], the bits 63..39, 38..12 and 11..0, *)
(* so that page is a 27-bit virtual page number and off the page offset.   *)
(***************************************************************************)
\* 2^27, the number of virtual pages of SV39, and 2^25
VPN_SPACE == 134217728
HI_SPACE == 33554432
USER_STACK_SIZE == 8192
KERNEL_STACK_SIZE == 8192

usize(hi, page, off) == [hi |-> hi, page |-> page, off |-> off]
usize_MAX == usize(HI_SPACE - 1, VPN_SPACE - 1, PAGE_SIZE - 1)

\* wrapping addition and subtraction of a number of bytes
usize_add(u, n) ==
  LET o == u.off + n
      p == u.page + o \div PAGE_SIZE
  IN  usize((u.hi + p \div VPN_SPACE) % HI_SPACE, p % VPN_SPACE, o % PAGE_SIZE)

usize_sub(u, n) ==
  LET o == u.off - n
      p == u.page + o \div PAGE_SIZE
  IN  usize((u.hi + p \div VPN_SPACE) % HI_SPACE, p % VPN_SPACE, o % PAGE_SIZE)

TRAMPOLINE == usize_add(usize_sub(usize_MAX, PAGE_SIZE), 1)
TRAP_CONTEXT == usize_sub(TRAMPOLINE, PAGE_SIZE)

\* VirtAddr::from(usize): the low 39 bits
VirtAddr_from(u) == usize(0, u.page, u.off)
\* VirtAddr::floor and VirtAddr::ceil
floor(va) == va.hi * VPN_SPACE + va.page
ceil(va) == floor(va) + (IF va.off = 0 THEN 0 ELSE 1)
\* VirtAddr::from(VirtPageNum): vpn << 12
VirtAddr_of_vpn(vpn) == usize(vpn \div VPN_SPACE, vpn % VPN_SPACE, 0)

kernel_stack_position_noguard(app_id) ==
  LET top == usize_sub(TRAMPOLINE, app_id * KERNEL_STACK_SIZE)
  IN  [bottom |-> usize_sub(top, KERNEL_STACK_SIZE), top |-> top]

\* kernel_stack_position: (bottom, top)
kernel_stack_position(app_id) ==
  LET top == usize_sub(TRAMPOLINE, app_id * (KERNEL_STACK_SIZE + PAGE_SIZE))
  IN  [bottom |-> usize_sub(top, KERNEL_STACK_SIZE), top |-> top]

(***************************************************************************)
(* Map areas and address spaces (os/src/mm/memory_set.rs).  The state an   *)
(* operation works on, w, is the record of the frame allocator, the        *)
(* physical memory, the page table [root_ppn, frames] and the areas of     *)
(* the address space, the area at hand and the panic flag; a step that     *)
(* follows a panic is not executed.                                        *)
(***************************************************************************)
\* MapPermission: the bits of PTEFlags R, W, X, U
MapPermission_R == PTE_R
MapPermission_W == PTE_W
MapPermission_X == PTE_X
MapPermission_U == PTE_U

NoArea == [vpn_range |-> [l |-> 0, r |-> 0], data_frames |-> <<>>,
           map_type |-> "Identical", map_perm |-> 0]

\* MapArea::new; VPNRange::new asserts start <= end
MapArea_new(start_va, end_va, map_type, map_perm) ==
  [vpn_range |-> [l |-> floor(start_va), r |-> ceil(end_va)],
   data_frames |-> <<>>,
   map_type |-> map_type,
   map_perm |-> map_perm]

VpnsOf(area) == area.vpn_range.l .. area.vpn_range.r - 1

\* BTreeMap::insert
BTreeMap_insert(f, key, val) ==
  [x \in DOMAIN f \cup {key} |-> IF x = key THEN val ELSE f[x]]
\* BTreeMap::remove
BTreeMap_remove(f, key) == [x \in DOMAIN f \ {key} |-> f[x]]

\* PageTable::map on the state w
map_set(w, r) ==
  [w EXCEPT !.a = r.a, !.mem = r.mem, !.pt = r.pt, !.panic = r.panic]
map_w(w, vpn, ppn, flags) ==
  IF w.panic THEN w
  ELSE map_set(w, map(w.a, w.mem, w.pt, vpn, ppn, flags))

\* MapArea::map_one, Framed: the frame r that frame_alloc gave is kept in
\* data_frames and mapped
map_one_framed(w, vpn, r) ==
  IF ~IsSome(r.ppn) THEN [w EXCEPT !.panic = TRUE]
  ELSE map_w([w EXCEPT !.a = r.a, !.mem = r.mem,
                       !.area.data_frames =
                          BTreeMap_insert(@, vpn, Unwrap(r.ppn))],
             vpn, Unwrap(r.ppn), w.area.map_perm)

\* MapArea::map_one
map_one(w, vpn) ==
  IF w.panic THEN w
  ELSE IF w.area.map_type = "Identical"
  THEN map_w(w, vpn, vpn, w.area.map_perm)
  ELSE map_one_framed(w, vpn, frame_alloc(w.a, w.mem))

\* MapArea::map: map_one for the pages of the range from vpn on
RECURSIVE MapArea_map(_, _)
MapArea_map(w, vpn) ==
  IF w.panic \/ vpn >= w.area.vpn_range.r THEN w
  ELSE MapArea_map(map_one(w, vpn), vpn + 1)

\* MapArea::copy_data from the byte start of len bytes of data on, into the
\* page current_vpn; a page that receives bytes is marked with their number
RECURSIVE copy_data(_, _, _, _)
\* one turn of the loop of copy_data: t is what translate gave for current_vpn
copy_data_page(w, len, start, current_vpn, t) ==
  LET src_len == (IF len < start + PAGE_SIZE THEN len
                  ELSE start + PAGE_SIZE) - start
  IN  IF ~IsSome(t.val) \/ pte_ppn(Unwrap(t.val)) \notin DOMAIN w.mem
      THEN [w EXCEPT !.panic = TRUE]
      ELSE LET w1 == IF src_len = 0 THEN w
                     ELSE [w EXCEPT !.mem = WriteWord(
                             @, pte_ppn(Unwrap(t.val)), 0, src_len)]
           IN  IF start + PAGE_SIZE >= len THEN w1
               ELSE copy_data(w1, len, start + PAGE_SIZE, current_vpn + 1)

copy_data(w, len, start, current_vpn) ==
  IF w.panic THEN w
  ELSE copy_data_page(w, len, start, current_vpn,
                      translate(w.a, w.mem, w.pt, current_vpn))

\* MemorySet::push, the copy: w has the area mapped
push_data(w, map_area, data) ==
  IF IsSome(data) /\ map_area.map_type # "Framed"
  THEN [w EXCEPT !.panic = TRUE]
  ELSE IF IsSome(data)
  THEN copy_data(w, Unwrap(data), 0, map_area.vpn_range.l)
  ELSE w

\* MemorySet::push, the end: the area goes into areas
push_area(w) ==
  IF w.panic THEN w
  ELSE [w EXCEPT !.areas = Append(@, w.area), !.area = NoArea]

\* MemorySet::push; data is None or Some(number of bytes)
push(w, map_area, data) ==
  IF w.panic THEN w
  ELSE IF map_area.vpn_range.l > map_area.vpn_range.r
  THEN [w EXCEPT !.panic = TRUE]
  ELSE push_area(
         push_data(MapArea_map([w EXCEPT !.area = map_area],
                               map_area.vpn_range.l),
                   map_area, data))

\* MemorySet::insert_framed_area
insert_framed_area(w, start_va, end_va, permission) ==
  push(w, MapArea_new(start_va, end_va, "Framed", permission), None)

\* MemorySet::new_bare
new_bare(a, m) ==
  LET r == PageTable_new(a, m) IN
  [a |-> r.a, mem |-> r.mem,
   pt |-> IF r.panic THEN [root_ppn |-> 0, frames |-> <<>>] ELSE Unwrap(r.pt),
   areas |-> <<>>, area |-> NoArea, panic |-> r.panic]

map_trampoline_writable(w, strampoline) ==
  map_w(w, floor(VirtAddr_from(TRAMPOLINE)), strampoline, PTE_R + PTE_W + PTE_X)

\* MemorySet::map_trampoline; strampoline is the page of the trampoline code
map_trampoline(w, strampoline) ==
  map_w(w, floor(VirtAddr_from(TRAMPOLINE)), strampoline, PTE_R + PTE_X)


\* a faulty MapArea::new whose range ends one page late
MapArea_new_long(start_va, end_va, map_type, map_perm) ==
  [vpn_range |-> [l |-> floor(start_va), r |-> ceil(end_va) + 1],
   data_frames |-> <<>>,
   map_type |-> map_type,
   map_perm |-> map_perm]

MEMORY_END == usize(0, MEMORY_END_PPN, 0)

\* PhysAddr::from(usize).into(): PhysPageNum, asserting the address is aligned
PhysPageNum_of(u) == IF u.off = 0 THEN Some(floor(u)) ELSE None

\* the start of new_kernel and of from_elf: the trampoline is mapped into
\* the bare space w, at the page of the address strampoline
new_trampoline(w, strampoline) ==
  LET tramp == PhysPageNum_of(strampoline) IN
  IF w.panic \/ ~IsSome(tramp) THEN [w EXCEPT !.panic = TRUE]
  ELSE map_trampoline(w, Unwrap(tramp))

\* an Identical area [start, end) with the permission perm is pushed
kernel_area(w, start, end, perm) ==
  push(w, MapArea_new(VirtAddr_from(start), VirtAddr_from(end), "Identical", perm),
       None)

\* a faulty new_kernel whose data section is executable
new_kernel_datax(l, a, m) ==
  kernel_area(
    kernel_area(
      kernel_area(
        kernel_area(
          kernel_area(
            new_trampoline(new_bare(a, m), l.strampoline),
            l.stext, l.etext,
            MapPermission_R + MapPermission_X),
          l.srodata, l.erodata,
          MapPermission_R),
        l.sdata, l.edata,
        MapPermission_R + MapPermission_W + MapPermission_X),
      l.sbss_with_stack, l.ebss,
      MapPermission_R + MapPermission_W),
    l.ekernel, MEMORY_END,
    MapPermission_R + MapPermission_W)

\* a faulty new_kernel without the area of the physical memory
new_kernel_nophys(l, a, m) ==
  kernel_area(
    kernel_area(
      kernel_area(
        kernel_area(
          new_trampoline(new_bare(a, m), l.strampoline),
          l.stext, l.etext,
          MapPermission_R + MapPermission_X),
        l.srodata, l.erodata,
        MapPermission_R),
      l.sdata, l.edata,
      MapPermission_R + MapPermission_W),
    l.sbss_with_stack, l.ebss,
    MapPermission_R + MapPermission_W)

\* MemorySet::new_kernel on the linker symbols l: the trampoline, then the
\* areas of .text, .rodata, .data, .bss and of the physical memory
new_kernel(l, a, m) ==
  kernel_area(
    kernel_area(
      kernel_area(
        kernel_area(
          kernel_area(
            new_trampoline(new_bare(a, m), l.strampoline),
            l.stext, l.etext,
            MapPermission_R + MapPermission_X),
          l.srodata, l.erodata,
          MapPermission_R),
        l.sdata, l.edata,
        MapPermission_R + MapPermission_W),
      l.sbss_with_stack, l.ebss,
      MapPermission_R + MapPermission_W),
    l.ekernel, MEMORY_END,
    MapPermission_R + MapPermission_W)

\* the permission of a loadable segment: U and what the header flags say
ph_map_perm(ph_flags) ==
  MapPermission_U
    + (IF ph_flags.r THEN MapPermission_R ELSE 0)
    + (IF ph_flags.w THEN MapPermission_W ELSE 0)
    + (IF ph_flags.x THEN MapPermission_X ELSE 0)

\* the loop of from_elf over the program headers from the i-th on, on
\* e = [w, max_end_vpn]
RECURSIVE from_elf_headers(_, _, _, _)
from_elf_headers(MkArea(_, _, _, _), e, phs, i) ==
  IF e.w.panic \/ i > Len(phs) THEN e
  ELSE LET ph == phs[i] IN
       IF ph.type # "Load" THEN from_elf_headers(MkArea, e, phs, i + 1)
       ELSE LET start_va == VirtAddr_from(ph.virtual_addr)
                end_va == VirtAddr_from(usize_add(ph.virtual_addr, ph.mem_size))
                map_area == MkArea(start_va, end_va, "Framed",
                                   ph_map_perm(ph.flags))
            IN  from_elf_headers(MkArea,
                  [w |-> push(e.w, map_area, Some(ph.file_size)),
                   max_end_vpn |-> map_area.vpn_range.r],
                  phs, i + 1)

user_stack_bottom_noguard(max_end_vpn) == VirtAddr_of_vpn(max_end_vpn)

\* the bottom of the user stack: one page above the end of the segments
user_stack_bottom(max_end_vpn) ==
  usize_add(VirtAddr_of_vpn(max_end_vpn), PAGE_SIZE)

\* from_elf: the magic number of the image is checked
from_elf_magic(w, elf) ==
  IF elf.magic # <<127, 69, 76, 70>> THEN [w EXCEPT !.panic = TRUE] ELSE w

\* from_elf after the loop over the program headers has given e: the user
\* stack and the trap context
from_elf_stack(MkArea(_, _, _, _), StackBottom(_), elf, e) ==
  LET bottom == StackBottom(e.max_end_vpn)
      user_stack_top == usize_add(bottom, USER_STACK_SIZE)
  IN  [w |-> push(
              push(e.w,
                   MkArea(VirtAddr_from(bottom), VirtAddr_from(user_stack_top),
                          "Framed",
                          MapPermission_R + MapPermission_W + MapPermission_U),
                   None),
              MkArea(VirtAddr_from(TRAP_CONTEXT), VirtAddr_from(TRAMPOLINE),
                     "Framed", MapPermission_R + MapPermission_W),
              None),
       user_sp |-> user_stack_top, entry_point |-> elf.entry_point]

\* from_elf with the MapArea::new and the stack bottom given
from_elf_with(MkArea(_, _, _, _), StackBottom(_), elf, strampoline, a, m) ==
  from_elf_stack(MkArea, StackBottom, elf,
    from_elf_headers(MkArea,
      [w |-> from_elf_magic(new_trampoline(new_bare(a, m), strampoline), elf),
       max_end_vpn |-> 0],
      elf.phs, 1))

from_elf_long(elf, strampoline, a, m) ==
  from_elf_with(MapArea_new_long, user_stack_bottom, elf, strampoline, a, m)

from_elf_noguard(elf, strampoline, a, m) ==
  from_elf_with(MapArea_new, user_stack_bottom_noguard, elf, strampoline, a, m)

\* MemorySet::from_elf: the address space, the top of the user stack and
\* the entry point
from_elf(elf, strampoline, a, m) ==
  from_elf_with(MapArea_new, user_stack_bottom, elf, strampoline, a, m)


(***************************************************************************)
(* The creation of a task (os/src/task/task.rs, os/src/trap/context.rs).   *)
(***************************************************************************)
usize_zero == usize(0, 0, 0)

\* PageTable::token: 8 << 60 | root_ppn
token(pt) == [mode |-> 8, ppn |-> pt.root_ppn]

\* TaskContext::goto_trap_return
goto_trap_return(kstack_ptr) == [ra |-> "trap_return", sp |-> kstack_ptr]

TrapContext_app_init_context_swapped(entry, sp, kernel_satp, kernel_sp, handler) ==
  [x |-> [i \in 0 .. 31 |-> IF i = 2 THEN kernel_sp ELSE usize_zero],
   sstatus |-> [spp |-> "User"],
   sepc |-> entry,
   kernel_satp |-> kernel_satp,
   kernel_sp |-> sp,
   trap_handler |-> handler]

\* TrapContext::app_init_context with all its fields
TrapContext_app_init_context(entry, sp, kernel_satp, kernel_sp, handler) ==
  [x |-> [i \in 0 .. 31 |-> IF i = 2 THEN sp ELSE usize_zero],
   sstatus |-> [spp |-> "User"],
   sepc |-> entry,
   kernel_satp |-> kernel_satp,
   kernel_sp |-> kernel_sp,
   trap_handler |-> handler]

\* TaskControlBlock::new(elf_data, app_id) with the kernel space ks: the
\* allocator, memory and kernel space afterwards, the control block and the
\* trap context written to the page trap_cx_ppn
TaskControlBlock_new_block(r, t, pos, ks, kw) ==
  [a |-> kw.a, mem |-> kw.mem, panic |-> kw.panic,
   kernel_space |-> [page_table |-> kw.pt, areas |-> kw.areas],
   tcb |-> [task_status |-> "Ready",
            task_cx |-> goto_trap_return(pos.top),
            memory_set |-> [page_table |-> r.w.pt, areas |-> r.w.areas],
            trap_cx_ppn |-> IF IsSome(t.val) THEN pte_ppn(Unwrap(t.val)) ELSE 0,
            base_size |-> r.user_sp],
   trap_cx |-> TrapContext_app_init_context(
                 r.entry_point, r.user_sp, token(ks.page_table), pos.top,
                 "trap_handler")]

\* r is what from_elf gave, t the translation of TRAP_CONTEXT in the new
\* space, pos the position of the kernel stack: the stack is inserted into
\* the kernel space ks
TaskControlBlock_new_stack(r, t, pos, ks) ==
  TaskControlBlock_new_block(r, t, pos, ks,
    insert_framed_area(
      [a |-> r.w.a, mem |-> r.w.mem, pt |-> ks.page_table,
       areas |-> ks.areas, area |-> NoArea,
       panic |-> r.w.panic \/ ~IsSome(t.val)],
      VirtAddr_from(pos.bottom), VirtAddr_from(pos.top),
      MapPermission_R + MapPermission_W))

TaskControlBlock_new_space(r, app_id, ks) ==
  TaskControlBlock_new_stack(
    r, translate(r.w.a, r.w.mem, r.w.pt, floor(VirtAddr_from(TRAP_CONTEXT))),
    kernel_stack_position(app_id), ks)

TaskControlBlock_new_app(elf_data, app_id, strampoline, ks, a, m) ==
  TaskControlBlock_new_space(from_elf(elf_data, strampoline, a, m), app_id, ks)

(***************************************************************************)
(* The kernel image and the program images the address spaces are built    *)
(* from.  The linker script puts every section on a page of its own;       *)
(* a section ends at the end of its last page or Tail bytes before it.     *)
(***************************************************************************)
\* the most applications whose address spaces are built
MaxSpaces == 2
\* the pages between ekernel and MEMORY_END
SpaceFrames == 64
\* the first virtual page of a program image
UserBasePage == 16

Layout(tail) ==
  LET ekernel == MEMORY_END_PPN - SpaceFrames
      stext == ekernel - 4
      End(page) == usize_sub(usize(0, page, 0), tail)
  IN  [stext |-> usize(0, stext, 0), etext |-> End(stext + 1),
       srodata |-> usize(0, stext + 1, 0), erodata |-> End(stext + 2),
       sdata |-> usize(0, stext + 2, 0), edata |-> End(stext + 3),
       sbss_with_stack |-> usize(0, stext + 3, 0),
       ebss |-> usize(0, ekernel, 0),
       ekernel |-> usize(0, ekernel, 0),
       strampoline |-> usize(0, stext, 0)]

Layouts == {Layout(tail) : tail \in {0, 8}}

ProgramHeader(type, va, mem_size, file_size, r, w, x) ==
  [type |-> type, virtual_addr |-> va, mem_size |-> mem_size,
   file_size |-> file_size, flags |-> [r |-> r, w |-> w, x |-> x]]

\* a program image: a text segment that starts off bytes into its page and
\* has size bytes, and, with data set, a note and a data segment on the page
\* after the text whose last 8 bytes are not in the file
Image(off, size, data) ==
  LET text_va == usize(0, UserBasePage, off)
      data_va == usize(0, ceil(usize_add(text_va, size)), off)
  IN  [magic |-> <<127, 69, 76, 70>>,
       entry_point |-> text_va,
       phs |-> IF data
               THEN <<ProgramHeader("Note", usize_zero, 0, 0, TRUE, FALSE, FALSE),
                      ProgramHeader("Load", text_va, size, size, TRUE, FALSE, TRUE),
                      ProgramHeader("Load", data_va, PAGE_SIZE, PAGE_SIZE - 8,
                                    TRUE, TRUE, FALSE)>>
               ELSE <<ProgramHeader("Load", text_va, size, size,
                                    TRUE, FALSE, TRUE)>>]

Images ==
  {Image(off, size, data) :
     off \in {0, 8}, size \in {PAGE_SIZE - 8, PAGE_SIZE}, data \in BOOLEAN}

\* init_frame_allocator: the pool [ekernel.ceil(), MEMORY_END.floor())
init_frame_allocator(l) == AllocatorInit(ceil(l.ekernel), floor(MEMORY_END))

\* rust_main before mm::init has built the kernel space
InitSpace ==
  /\ layout \in Layouts
  /\ FRAME_ALLOCATOR = init_frame_allocator(layout)
  /\ mem = [p \in ceil(layout.ekernel) .. floor(MEMORY_END) - 1 |-> ZeroPage]
  /\ v = <<>>
  /\ test = TestIdle
  /\ page_table = None
  /\ panicked = FALSE
  /\ ret = NoRet
  /\ TASK_MANAGER = [num_app |-> 0, tasks |-> <<>>, current_task |-> 0]
  /\ stvec = "kernel"
  /\ timer_armed = FALSE
  /\ exit_code = <<>>
  /\ last_trap = NoTrap
  /\ ready_queue = <<>>
  /\ PROCESSOR = [current |-> None]
  /\ tcbs = <<>>
  /\ dispatched = <<>>
  /\ trap_cx = <<>>
  /\ trap_cx_ppn = 0
  /\ borrowed = <<>>
  /\ cell_log = NoCellOp
  /\ KERNEL_SPACE = None
  /\ apps = <<>>

SpaceRet(op, val) == [op |-> op, arg |-> 0, val |-> val, dirty |-> FALSE]

\* the kernel space that new_kernel gave, w, becomes KERNEL_SPACE
SetKernelSpace(w) ==
  /\ FRAME_ALLOCATOR' = w.a
  /\ mem' = w.mem
  /\ panicked' = w.panic
  /\ KERNEL_SPACE' = IF w.panic THEN None
                     ELSE Some([page_table |-> w.pt, areas |-> w.areas])

\* the first use of KERNEL_SPACE: new_kernel builds the kernel space
SpaceNewKernel ==
  /\ ~panicked
  /\ KERNEL_SPACE = None
  /\ SetKernelSpace(new_kernel(layout, FRAME_ALLOCATOR, mem))
  /\ ret' = SpaceRet("new_kernel", None)
  /\ UNCHANGED <<v, test, page_table, tableVars, queueVars, cxVars, cellVars,
                 layout, apps>>

\* the task that TaskControlBlock::new gave, r, is kept with its image
SetTask(r, elf_data) ==
  /\ FRAME_ALLOCATOR' = r.a
  /\ mem' = r.mem
  /\ panicked' = r.panic
  /\ IF r.panic
     THEN UNCHANGED <<KERNEL_SPACE, apps, trap_cx>>
     ELSE /\ KERNEL_SPACE' = Some(r.kernel_space)
          /\ apps' = Append(apps, [tcb |-> r.tcb, elf_data |-> elf_data])
          /\ trap_cx' = BTreeMap_insert(trap_cx, r.tcb.trap_cx_ppn, r.trap_cx)

\* TaskControlBlock::new(elf_data, app_id) for the next application
TaskNewStep(elf_data) ==
  /\ ~panicked
  /\ IsSome(KERNEL_SPACE)
  /\ SetTask(TaskControlBlock_new_app(elf_data, Len(apps), layout.strampoline,
                                      Unwrap(KERNEL_SPACE), FRAME_ALLOCATOR, mem),
             elf_data)
  /\ ret' = SpaceRet("TaskControlBlock::new", None)
  /\ UNCHANGED <<v, test, page_table, tableVars, queueVars, trap_cx_ppn,
                 cellVars, layout>>

\* the initialiser of TASK_MANAGER creates the next application's task
SpaceTaskNew(elf_data) ==
  /\ Len(apps) < MaxSpaces
  /\ \A i \in DOMAIN apps : apps[i].tcb.task_status = "Ready"
  /\ TaskNewStep(elf_data)

\* PageTableEntry::writable and PageTableEntry::executable
writable(bits) == HasFlag(pte_flags(bits), PTE_W)
executable(bits) == HasFlag(pte_flags(bits), PTE_X)

\* (u1 + u2) / 2 of two addresses below 2^39
usize_mid(u1, u2) ==
  LET pages == u1.page + u2.page
      bytes == (pages % 2) * PAGE_SIZE + u1.off + u2.off
  IN  usize(0, pages \div 2 + (bytes \div 2) \div PAGE_SIZE,
            (bytes \div 2) % PAGE_SIZE)

\* remap_test on the kernel space ks: TRUE if an unwrap or an assertion fails
remap_test(ks, l, a, m) ==
  LET mid_text == VirtAddr_from(usize_mid(l.stext, l.etext))
      mid_rodata == VirtAddr_from(usize_mid(l.srodata, l.erodata))
      mid_data == VirtAddr_from(usize_mid(l.sdata, l.edata))
      t1 == translate(a, m, ks.page_table, floor(mid_text)).val
      t2 == translate(a, m, ks.page_table, floor(mid_rodata)).val
      t3 == translate(a, m, ks.page_table, floor(mid_data)).val
  IN  \/ ~IsSome(t1) \/ ~IsSome(t2) \/ ~IsSome(t3)
      \/ writable(Unwrap(t1))
      \/ writable(Unwrap(t2))
      \/ executable(Unwrap(t3))

\* mm::remap_test() of rust_main
SpaceRemapTest ==
  /\ ~panicked
  /\ IsSome(KERNEL_SPACE)
  /\ apps = <<>>
  /\ ret.op = "new_kernel"
  /\ panicked' = remap_test(Unwrap(KERNEL_SPACE), layout, FRAME_ALLOCATOR, mem)
  /\ ret' = SpaceRet("remap_test", None)
  /\ UNCHANGED <<memVars, tableVars, queueVars, cxVars, restVars>>

\* a task is run for the first time: it is marked Running and __switch
\* enters trap_return on its kernel stack, which hands the address of the
\* trap context and the token of the task's space to __restore
SpaceRun(i) ==
  /\ ~panicked
  /\ i \in DOMAIN apps
  /\ \A j \in DOMAIN apps : apps[j].tcb.task_status = "Ready"
  /\ apps' = [apps EXCEPT ![i].tcb.task_status = "Running"]
  /\ stvec' = "user"
  /\ ret' = SpaceRet("trap_return",
                     Some([sp |-> apps[i].tcb.task_cx.sp,
                           trap_cx_ptr |-> TRAP_CONTEXT,
                           user_satp |-> token(apps[i].tcb.memory_set.page_table)]))
  /\ UNCHANGED <<memVars, panicked, TASK_MANAGER, timer_armed, exit_code,
                 last_trap, queueVars, cxVars, cellVars, layout, KERNEL_SPACE>>

SpaceNext ==
  \/ SpaceNewKernel
  \/ SpaceRemapTest
  \/ \E elf_data \in Images : SpaceTaskNew(elf_data)
  \/ \E i \in 1 .. MaxSpaces : SpaceRun(i)

SpecSpace == InitSpace /\ [][SpaceNext]_vars


(***************************************************************************)
(* Claims about the address spaces.                                        *)
(***************************************************************************)
TRAMPOLINE_VPN == floor(VirtAddr_from(TRAMPOLINE))
\* what translate returns in the page table pt of the current memory
Lookup(pt, vpn) == translate(FRAME_ALLOCATOR, mem, pt, vpn).val
MappedIn(pt, vpn) == IsSome(Lookup(pt, vpn)) /\ is_valid(Unwrap(Lookup(pt, vpn)))
FlagsIn(pt, vpn) == pte_flags(Unwrap(Lookup(pt, vpn)))
LoadHeaders(elf) == {i \in DOMAIN elf.phs : elf.phs[i].type = "Load"}
SegPages(ph) ==
  floor(VirtAddr_from(ph.virtual_addr))
    .. ceil(VirtAddr_from(usize_add(ph.virtual_addr, ph.mem_size))) - 1

\* a well-formed image: the magic number, at least one loadable segment,
\* the loadable segments non-empty, in ascending order and on pages of
\* their own, with no more file bytes than memory, and room for the guard
\* page and the stack below the trap context
WellFormed(elf) ==
  /\ elf.magic = <<127, 69, 76, 70>>
  /\ LoadHeaders(elf) # {}
  /\ \A i \in LoadHeaders(elf) :
       /\ elf.phs[i].mem_size > 0
       /\ elf.phs[i].file_size <= elf.phs[i].mem_size
       /\ elf.phs[i].virtual_addr.hi = 0
       /\ \A p \in SegPages(elf.phs[i]) :
            p + 1 + USER_STACK_SIZE \div PAGE_SIZE < TRAMPOLINE_VPN - 1
  /\ \A i, j \in LoadHeaders(elf) :
       i < j => \A p \in SegPages(elf.phs[i]), q \in SegPages(elf.phs[j]) : p < q

\* C23: from_elf does not fail on a well-formed image, and the map areas of
\* the address space it returns (one per loadable segment, the user stack,
\* the trap context) have pairwise disjoint page ranges, none of which
\* holds the trampoline page.
C23_AreasDisjoint ==
  /\ ret.op = "TaskControlBlock::new" => ~panicked
  /\ \A i \in DOMAIN apps :
       LET elf == apps[i].elf_data
           areas == apps[i].tcb.memory_set.areas
       IN  WellFormed(elf) =>
             /\ Len(areas) = Cardinality(LoadHeaders(elf)) + 2
             /\ \A j, k \in DOMAIN areas :
                  j < k => VpnsOf(areas[j]) \cap VpnsOf(areas[k]) = {}
             /\ \A j \in DOMAIN areas : TRAMPOLINE_VPN \notin VpnsOf(areas[j])

\* an image with two loadable segments has got its four areas
C23_Witness ==
  /\ ~panicked
  /\ \E i \in DOMAIN apps :
       /\ WellFormed(apps[i].elf_data)
       /\ Cardinality(LoadHeaders(apps[i].elf_data)) = 2
       /\ Len(apps[i].tcb.memory_set.areas) = 4

\* the end of the highest segment page of an image
HighestEnd(elf) ==
  CHOOSE e \in {ceil(VirtAddr_from(usize_add(elf.phs[i].virtual_addr,
                                             elf.phs[i].mem_size))) :
                  i \in LoadHeaders(elf)} :
    \A i \in LoadHeaders(elf) :
      ceil(VirtAddr_from(usize_add(elf.phs[i].virtual_addr,
                                   elf.phs[i].mem_size))) <= e

Spaces ==
  (IF IsSome(KERNEL_SPACE) THEN {Unwrap(KERNEL_SPACE)} ELSE {})
    \cup {apps[i].tcb.memory_set : i \in DOMAIN apps}

\* C25: in every address space the top virtual page is mapped to the page
\* of the trampoline code with the flags R and X (and V) and neither W nor
\* U, and it lies in no map area of the space.
C25_Trampoline ==
  /\ TRAMPOLINE_VPN = VPN_SPACE - 1
  /\ \A ms \in Spaces :
       /\ MappedIn(ms.page_table, TRAMPOLINE_VPN)
       /\ pte_ppn(Unwrap(Lookup(ms.page_table, TRAMPOLINE_VPN)))
            = floor(layout.strampoline)
       /\ FlagsIn(ms.page_table, TRAMPOLINE_VPN) = PTE_V + PTE_R + PTE_X
       /\ \A j \in DOMAIN ms.areas : TRAMPOLINE_VPN \notin VpnsOf(ms.areas[j])

\* the kernel space and the spaces of two applications exist
C25_Witness ==
  /\ ~panicked
  /\ IsSome(KERNEL_SPACE)
  /\ Len(apps) = 2
  /\ Cardinality(Spaces) = 3


\* the virtual page of the trap context
TRAP_CONTEXT_VPN == floor(VirtAddr_from(TRAP_CONTEXT))
\* the top of the kernel stack of the application admitted as number i
KStackTop(i) == usize_sub(TRAMPOLINE, i * (KERNEL_STACK_SIZE + PAGE_SIZE))
\* the pages of the kernel stack of the application admitted as number i
KStackPages(i) ==
  LET top == TRAMPOLINE_VPN - i * (KERNEL_STACK_SIZE \div PAGE_SIZE + 1)
  IN  top - KERNEL_STACK_SIZE \div PAGE_SIZE .. top - 1

\* C26: once a task made from an image runs for the first time, the trap
\* context in the frame behind its TRAP_CONTEXT page has sepc = the entry
\* point of the image, x2 = the user stack top from_elf returned (the end of
\* the guard page plus USER_STACK_SIZE), kernel_sp = the top of the task's
\* kernel stack, and the previous privilege User; trap_return is entered on
\* that kernel stack with the token of the task's space.
C26_TrapContextInit ==
  \A i \in DOMAIN apps :
    apps[i].tcb.task_status = "Running" =>
      LET tcb == apps[i].tcb
          elf == apps[i].elf_data
          cx == trap_cx[tcb.trap_cx_ppn]
      IN  /\ MappedIn(tcb.memory_set.page_table, TRAP_CONTEXT_VPN)
          /\ tcb.trap_cx_ppn
               = pte_ppn(Unwrap(Lookup(tcb.memory_set.page_table, TRAP_CONTEXT_VPN)))
          /\ tcb.trap_cx_ppn \in DOMAIN trap_cx
          /\ \A j \in DOMAIN apps :
               j # i => apps[j].tcb.trap_cx_ppn # tcb.trap_cx_ppn
          /\ cx.sepc = elf.entry_point
          /\ cx.x[2] = tcb.base_size
          /\ cx.x[2] = usize_add(VirtAddr_of_vpn(HighestEnd(elf) + 1),
                                 USER_STACK_SIZE)
          /\ cx.kernel_sp = KStackTop(i - 1)
          /\ cx.sstatus.spp = "User"
          /\ ret.op = "trap_return"
          /\ Unwrap(ret.val).sp = KStackTop(i - 1)
          /\ Unwrap(ret.val).user_satp = token(tcb.memory_set.page_table)

\* the second of two tasks, made from an image with a data segment, runs
C26_Witness ==
  /\ ~panicked
  /\ Len(apps) = 2
  /\ apps[2].tcb.task_status = "Running"
  /\ Cardinality(LoadHeaders(apps[2].elf_data)) = 2
  /\ trap_cx[apps[2].tcb.trap_cx_ppn].sepc = usize(0, UserBasePage, 8)

\* C27: the kernel stack of admission index i is [top - KERNEL_STACK_SIZE,
\* top) with top = TRAMPOLINE - i * (KERNEL_STACK_SIZE + PAGE_SIZE); the
\* stacks of different tasks share no page, the page below each stack is
\* not mapped and in no area, no stack holds the trampoline page, and each
\* stack is a Framed R+W area of the kernel space, mapped in the kernel's
\* page table; the task's own space has no such area and none of its frames.
C27_KernelStacks ==
  /\ \A i \in 0 .. MaxSpaces - 1 :
       /\ kernel_stack_position(i).top = KStackTop(i)
       /\ kernel_stack_position(i).bottom
            = usize_sub(KStackTop(i), KERNEL_STACK_SIZE)
       /\ floor(VirtAddr_from(kernel_stack_position(i).bottom))
            .. ceil(VirtAddr_from(kernel_stack_position(i).top)) - 1
            = KStackPages(i)
  /\ \A i \in DOMAIN apps :
       LET ks == Unwrap(KERNEL_SPACE)
           own == apps[i].tcb.memory_set
           pages == KStackPages(i - 1)
           guard == TRAMPOLINE_VPN - i * (KERNEL_STACK_SIZE \div PAGE_SIZE + 1)
       IN  /\ TRAMPOLINE_VPN \notin pages
           /\ \E k \in DOMAIN ks.areas :
                /\ VpnsOf(ks.areas[k]) = pages
                /\ ks.areas[k].map_type = "Framed"
                /\ ks.areas[k].map_perm = MapPermission_R + MapPermission_W
                /\ DOMAIN ks.areas[k].data_frames = pages
           /\ \A p \in pages :
                /\ MappedIn(ks.page_table, p)
                /\ FlagsIn(ks.page_table, p) = PTE_V + PTE_R + PTE_W
                /\ \A k \in DOMAIN own.areas :
                     \A q \in DOMAIN own.areas[k].data_frames :
                       own.areas[k].data_frames[q]
                         # pte_ppn(Unwrap(Lookup(ks.page_table, p)))
           /\ \A k \in DOMAIN own.areas : VpnsOf(own.areas[k]) # pages
           /\ ~MappedIn(ks.page_table, guard)
           /\ \A k \in DOMAIN ks.areas : guard \notin VpnsOf(ks.areas[k])
           /\ \A j \in DOMAIN apps :
                j # i => KStackPages(j - 1) \cap (pages \cup {guard}) = {}
           /\ apps[i].tcb.task_cx = goto_trap_return(KStackTop(i - 1))

\* two tasks have their kernel stacks, a guard page apart
C27_Witness ==
  /\ ~panicked
  /\ Len(apps) = 2
  /\ MappedIn(Unwrap(KERNEL_SPACE).page_table, TRAMPOLINE_VPN - 1)
  /\ ~MappedIn(Unwrap(KERNEL_SPACE).page_table, TRAMPOLINE_VPN - 3)
  /\ MappedIn(Unwrap(KERNEL_SPACE).page_table, TRAMPOLINE_VPN - 4)

\* the pages of the kernel section [s, e)
SectionPages(s, e) == floor(VirtAddr_from(s)) .. ceil(VirtAddr_from(e)) - 1

\* C28: in the kernel space every page of the code section is mapped R+X,
\* every page of the read-only data R, every page of the data and of the
\* bss R+W: no code or read-only page is writable, no data page executable,
\* and remap_test passes.
C28_KernelPermissions ==
  /\ ret.op = "remap_test" => ~panicked
  /\ IsSome(KERNEL_SPACE) =>
       LET pt == Unwrap(KERNEL_SPACE).page_table IN
       /\ \A p \in SectionPages(layout.stext, layout.etext) :
            MappedIn(pt, p) /\ FlagsIn(pt, p) = PTE_V + PTE_R + PTE_X
       /\ \A p \in SectionPages(layout.srodata, layout.erodata) :
            MappedIn(pt, p) /\ FlagsIn(pt, p) = PTE_V + PTE_R
       /\ \A p \in SectionPages(layout.sdata, layout.edata)
                     \cup SectionPages(layout.sbss_with_stack, layout.ebss) :
            MappedIn(pt, p) /\ FlagsIn(pt, p) = PTE_V + PTE_R + PTE_W

\* remap_test has run on a kernel whose sections end inside their pages
C28_Witness ==
  /\ ~panicked
  /\ ret.op = "remap_test"
  /\ layout.etext.off # 0
  /\ IsSome(KERNEL_SPACE)

\* the pages init_frame_allocator gives the allocator
KernelPool ==
  init_frame_allocator(layout).current .. init_frame_allocator(layout).end - 1

\* C29: every page of the allocator's pool, from the end of the kernel
\* rounded up to MEMORY_END rounded down, is mapped in the kernel space to
\* the physical page of the same number, readable and writable; so is every
\* frame the allocator has handed out.
C29_PoolIdentityMapped ==
  IsSome(KERNEL_SPACE) =>
    LET pt == Unwrap(KERNEL_SPACE).page_table IN
    /\ KernelPool = ceil(layout.ekernel) .. floor(MEMORY_END) - 1
    /\ \A p \in KernelPool :
         /\ MappedIn(pt, p)
         /\ pte_ppn(Unwrap(Lookup(pt, p))) = p
         /\ FlagsIn(pt, p) = PTE_V + PTE_R + PTE_W
    /\ \A i \in DOMAIN apps :
         /\ apps[i].tcb.trap_cx_ppn \in KernelPool
         /\ \A k \in DOMAIN apps[i].tcb.memory_set.areas :
              \A q \in DOMAIN apps[i].tcb.memory_set.areas[k].data_frames :
                apps[i].tcb.memory_set.areas[k].data_frames[q] \in KernelPool

\* the frame of a task's trap context is reached through its identity alias
C29_Witness ==
  /\ ~panicked
  /\ IsSome(KERNEL_SPACE)
  /\ Len(apps) = 2
  /\ MappedIn(Unwrap(KERNEL_SPACE).page_table, apps[2].tcb.trap_cx_ppn)
  /\ pte_ppn(Unwrap(Lookup(Unwrap(KERNEL_SPACE).page_table,
                           apps[2].tcb.trap_cx_ppn)))
       = apps[2].tcb.trap_cx_ppn

(***************************************************************************)
(* Release of frames: a FrameTracker that is dropped gives its frame back  *)
(* (Drop for FrameTracker), so removing a handle from a map area and       *)
(* dropping a page table or an address space deallocate their frames.      *)
(***************************************************************************)
\* the admission indices of the applications whose spaces are dropped
DropApps == {0, 1}
\* the most areas that are unmapped at a time
MaxUnmapped == 1

\* a faulty unmap_one that clears the entry and keeps the handle of the page
unmap_one_keep(w, vpn) ==
  IF w.panic THEN w
  ELSE LET u == unmap(w.mem, w.pt, vpn) IN
       [w EXCEPT !.mem = u.mem, !.panic = u.panic]

\* MapArea::unmap_one: data_frames.remove drops the handle of the page, if
\* there is one; then PageTable::unmap
unmap_one(w, vpn) ==
  IF w.panic THEN w
  ELSE LET held == w.area.map_type = "Framed" /\ vpn \in DOMAIN w.area.data_frames
           d == IF held THEN dealloc(w.a, w.area.data_frames[vpn])
                ELSE [a |-> w.a, panic |-> FALSE]
           w1 == IF held
                 THEN [w EXCEPT !.a = d.a, !.panic = d.panic,
                                !.area.data_frames = BTreeMap_remove(@, vpn)]
                 ELSE w
       IN  IF w1.panic THEN w1
           ELSE LET u == unmap(w1.mem, w1.pt, vpn) IN
                [w1 EXCEPT !.mem = u.mem, !.panic = u.panic]

\* MapArea::unmap: unmap_one for the pages of the range from vpn on
RECURSIVE MapArea_unmap(_, _)
MapArea_unmap(w, vpn) ==
  IF w.panic \/ vpn >= w.area.vpn_range.r THEN w
  ELSE MapArea_unmap(unmap_one(w, vpn), vpn + 1)

\* the drop of a BTreeMap<VirtPageNum, FrameTracker>: in the order of the keys
RECURSIVE drop_data_frames(_, _)
drop_data_frames(a, data_frames) ==
  IF DOMAIN data_frames = {} THEN [a |-> a, panic |-> FALSE]
  ELSE LET vpn == CHOOSE x \in DOMAIN data_frames :
                    \A y \in DOMAIN data_frames : x <= y
           r == dealloc(a, data_frames[vpn])
       IN  IF r.panic THEN r
           ELSE drop_data_frames(r.a, BTreeMap_remove(data_frames, vpn))

\* the drop of a Vec<MapArea>
RECURSIVE drop_areas(_, _)
drop_areas(a, areas) ==
  IF areas = <<>> THEN [a |-> a, panic |-> FALSE]
  ELSE LET r == drop_data_frames(a, Head(areas).data_frames) IN
       IF r.panic THEN r ELSE drop_areas(r.a, Tail(areas))

\* a faulty drop that releases the node frames only
drop_memory_set_nodes(a, ms) == drop_frames(a, ms.page_table.frames)

\* the drop of a MemorySet: its fields in the order of their declaration,
\* the page table with its node frames, then the areas
drop_memory_set(a, ms) ==
  LET r == drop_frames(a, ms.page_table.frames) IN
  IF r.panic THEN r ELSE drop_areas(r.a, ms.areas)

\* a memory set that has been dropped
NoSpace == [page_table |-> [root_ppn |-> 0, frames |-> <<>>], areas |-> <<>>]
\* the i-th application still has its address space
Live(i) == i \in DOMAIN apps /\ apps[i].tcb.memory_set # NoSpace
\* the areas of live applications all of whose handles have been removed
Unmapped ==
  UNION {{<<i, k>> : k \in {j \in DOMAIN apps[i].tcb.memory_set.areas :
                              DOMAIN apps[i].tcb.memory_set.areas[j].data_frames = {}}} :
           i \in {j \in DOMAIN apps : Live(j)}}

\* the images of the applications that are dropped: with and without data
DropImages == {Image(8, PAGE_SIZE, data) : data \in BOOLEAN}

DropRet(op, i, k) == [op |-> op, arg |-> <<i, k>>, val |-> None, dirty |-> FALSE]

\* an application's task is created, possibly after others were dropped
DropTaskNew(elf_data) ==
  /\ Len(apps) \in DropApps
  /\ TaskNewStep(elf_data)

\* MapArea::unmap on the k-th area of the i-th application
DropUnmap(i, k) ==
  /\ ~panicked
  /\ Live(i)
  /\ k \in DOMAIN apps[i].tcb.memory_set.areas
  /\ <<i, k>> \in Unmapped \/ Cardinality(Unmapped) < MaxUnmapped
  /\ LET ms == apps[i].tcb.memory_set
         w == MapArea_unmap([a |-> FRAME_ALLOCATOR, mem |-> mem,
                             pt |-> ms.page_table, areas |-> ms.areas,
                             area |-> ms.areas[k], panic |-> FALSE],
                            ms.areas[k].vpn_range.l)
     IN
     /\ FRAME_ALLOCATOR' = w.a
     /\ mem' = w.mem
     /\ panicked' = w.panic
     /\ apps' = [apps EXCEPT ![i].tcb.memory_set.areas[k] = w.area]
  /\ ret' = DropRet("unmap", i, k)
  /\ UNCHANGED <<v, test, page_table, tableVars, queueVars, cxVars, cellVars,
                 layout, KERNEL_SPACE>>

\* the control block of the i-th application is dropped, and with it the
\* application's address space
DropTask(i) ==
  /\ ~panicked
  /\ Live(i)
  /\ LET r == drop_memory_set(FRAME_ALLOCATOR, apps[i].tcb.memory_set) IN
     /\ FRAME_ALLOCATOR' = r.a
     /\ panicked' = r.panic
  /\ apps' = [apps EXCEPT ![i].tcb.memory_set = NoSpace,
                          ![i].tcb.task_status = "Exited"]
  /\ trap_cx' = BTreeMap_remove(trap_cx, apps[i].tcb.trap_cx_ppn)
  /\ ret' = DropRet("drop", i, 0)
  /\ UNCHANGED <<mem, v, test, page_table, tableVars, queueVars, trap_cx_ppn,
                 cellVars, layout, KERNEL_SPACE>>

DropNext ==
  \/ SpaceNewKernel
  \/ \E elf_data \in DropImages : DropTaskNew(elf_data)
  \/ \E i \in DOMAIN apps :
       \E k \in DOMAIN apps[i].tcb.memory_set.areas : DropUnmap(i, k)
  \/ \E i \in DOMAIN apps : DropTask(i)

SpecDrop == InitSpace /\ [][DropNext]_vars

\* the handles <<owner, holder, key, frame>> of the address space ms of the
\* owner id: those of the node frames in page_table.frames and those of the
\* data frames in the data_frames of its areas
Handles(id, ms) ==
  {<<id, 0, j, ms.page_table.frames[j]>> : j \in DOMAIN ms.page_table.frames}
    \cup UNION {{<<id, k, vpn, ms.areas[k].data_frames[vpn]>> :
                   vpn \in DOMAIN ms.areas[k].data_frames} :
                k \in DOMAIN ms.areas}
\* the handles of the kernel space and of the applications' spaces
AllHandles ==
  (IF IsSome(KERNEL_SPACE) THEN Handles(0, Unwrap(KERNEL_SPACE)) ELSE {})
    \cup UNION {Handles(i, apps[i].tcb.memory_set) : i \in DOMAIN apps}
OwnedFrames == {h[4] : h \in AllHandles}
Recycled == {FRAME_ALLOCATOR.recycled[j] : j \in DOMAIN FRAME_ALLOCATOR.recycled}

\* C30: a frame is on the recycle list exactly if it was handed out and no
\* handle owns it, and it is there once; a step puts on the list exactly
\* the frames whose handles it released; when an address space is dropped
\* all its node and data frames are on the list and the drop does not
\* fail, when an area is unmapped all its data frames are; and no frame a
\* live structure owns is on the list.
C30_FramesReleased ==
  [][/\ ~panicked' =>
            /\ \A h1, h2 \in AllHandles' : h1[4] = h2[4] => h1 = h2
            /\ Cardinality(Recycled') = Len(FRAME_ALLOCATOR'.recycled)
            /\ OwnedFrames' \cap Recycled' = {}
            /\ OwnedFrames' \cup Recycled'
                 = init_frame_allocator(layout).current .. FRAME_ALLOCATOR'.current - 1
            /\ Recycled' \ Recycled = OwnedFrames \ OwnedFrames'
            /\ ret'.op = "drop" =>
                 /\ Handles(ret'.arg[1], apps'[ret'.arg[1]].tcb.memory_set) = {}
                 /\ Handles(ret'.arg[1], apps[ret'.arg[1]].tcb.memory_set) # {}
                 /\ \A h \in Handles(ret'.arg[1], apps[ret'.arg[1]].tcb.memory_set) :
                      h[4] \in Recycled'
                 /\ \A h \in AllHandles :
                      h[1] # ret'.arg[1] => h \in AllHandles' /\ h[4] \notin Recycled'
            /\ ret'.op = "unmap" =>
                 LET i == ret'.arg[1]
                     k == ret'.arg[2]
                     area == apps[i].tcb.memory_set.areas[k]
                 IN  /\ DOMAIN apps'[i].tcb.memory_set.areas[k].data_frames = {}
                     /\ \A vpn \in DOMAIN area.data_frames :
                          area.data_frames[vpn] \in Recycled'
                     /\ \A vpn \in VpnsOf(area) :
                          ~is_valid(Unwrap(translate(FRAME_ALLOCATOR', mem',
                                      apps'[i].tcb.memory_set.page_table, vpn).val))
                     /\ \A h \in AllHandles :
                          (h[1] # i \/ h[2] # k)
                            => h \in AllHandles' /\ h[4] \notin Recycled'
     /\ ret'.op = "drop" => ~panicked']_vars

\* an application's space has been dropped while another lives, and the
\* frames of its page table and of its areas are on the recycle list
C30_Witness ==
  /\ ~panicked
  /\ ret.op = "drop"
  /\ \E i \in DOMAIN apps : Live(i)
  /\ Len(FRAME_ALLOCATOR.recycled) >= 10
  /\ OwnedFrames \cap Recycled = {}

(***************************************************************************)
(* Address arithmetic (os/src/mm/address.rs).  A page number is a usize    *)
(* too: it is kept as [hi, page], the bits 51..27 and 26..0, so that the   *)
(* page number of the address [hi, page, off] is [hi, page].               *)
(***************************************************************************)
\* 2^17: the bits 55..39 of a physical address, 43..27 of a physical page
PA_HI_SPACE == 131072
MaxAddrPage == 1
MaxAddrOff == 1

PageNum(hi, page) == [hi |-> hi, page |-> page]
\* u / PAGE_SIZE, u & (PAGE_SIZE - 1) and n << PAGE_SIZE_BITS
usize_div_page(u) == PageNum(u.hi, u.page)
usize_and_page(u) == u.off
usize_shl_page(n) == usize(n.hi % HI_SPACE, n.page, 0)
\* u1 <= u2 as unsigned numbers
usize_le(u1, u2) ==
  \/ u1.hi < u2.hi
  \/ u1.hi = u2.hi /\ u1.page < u2.page
  \/ u1.hi = u2.hi /\ u1.page = u2.page /\ u1.off <= u2.off

\* From<usize> for PhysAddr, PhysPageNum and VirtPageNum: the low 56, 44
\* and 27 bits
PhysAddr_from(u) == usize(u.hi % PA_HI_SPACE, u.page, u.off)
PhysPageNum_from(u) ==
  PageNum((u.hi % (PA_HI_SPACE \div PAGE_SIZE)) * PAGE_SIZE
            + u.page \div (VPN_SPACE \div PAGE_SIZE),
          (u.page % (VPN_SPACE \div PAGE_SIZE)) * PAGE_SIZE + u.off)
VirtPageNum_from(u) ==
  PageNum(0, (u.page % (VPN_SPACE \div PAGE_SIZE)) * PAGE_SIZE + u.off)

VirtAddr_floor(a) == usize_div_page(a)
VirtAddr_ceil_trunc(a) == usize_div_page(a)
VirtAddr_ceil(a) == usize_div_page(usize_sub(usize_add(a, PAGE_SIZE), 1))
VirtAddr_page_offset(a) == usize_and_page(a)
\* From<VirtPageNum> for VirtAddr
VirtAddr_from_vpn(n) == usize_shl_page(n)

PhysAddr_floor(a) == usize_div_page(a)
PhysAddr_ceil(a) == usize_div_page(usize_sub(usize_add(a, PAGE_SIZE), 1))
PhysAddr_page_offset(a) == usize_and_page(a)
\* From<PhysPageNum> for PhysAddr
PhysAddr_from_ppn(n) == usize_shl_page(n)

\* From<VirtAddr> for VirtPageNum and From<PhysAddr> for PhysPageNum:
\* assert_eq!(v.page_offset(), 0); v.floor()
VirtPageNum_from_va_unchecked(a) == [panic |-> FALSE, val |-> Some(VirtAddr_floor(a))]
VirtPageNum_from_va(a) ==
  IF VirtAddr_page_offset(a) # 0 THEN [panic |-> TRUE, val |-> None]
  ELSE [panic |-> FALSE, val |-> Some(VirtAddr_floor(a))]
PhysPageNum_from_pa(a) ==
  IF PhysAddr_page_offset(a) # 0 THEN [panic |-> TRUE, val |-> None]
  ELSE [panic |-> FALSE, val |-> Some(PhysAddr_floor(a))]

\* the machine words addresses are made of
AddrHis == {0, 1, PA_HI_SPACE \div PAGE_SIZE - 1, PA_HI_SPACE - 1, PA_HI_SPACE, HI_SPACE - 1}
AddrPages == 0 .. MaxAddrPage \cup {VPN_SPACE \div PAGE_SIZE - 1, VPN_SPACE - 1}
AddrOffs == 0 .. MaxAddrOff \cup {PAGE_SIZE - 1}
AddrWords == {usize(hi, page, off) : hi \in AddrHis, page \in AddrPages, off \in AddrOffs}
AddrTypes == {"VirtAddr", "PhysAddr"}
\* an address is made from a word or from a page number made from a word
AddrMade(type, how, u) ==
  IF type = "VirtAddr"
  THEN IF how = "usize" THEN VirtAddr_from(u) ELSE VirtAddr_from_vpn(VirtPageNum_from(u))
  ELSE IF how = "usize" THEN PhysAddr_from(u) ELSE PhysAddr_from_ppn(PhysPageNum_from(u))

AddrRet(op, type, a, val) ==
  [op |-> op, arg |-> <<type, a>>, val |-> val, dirty |-> FALSE]
AddrIdle == UNCHANGED <<memVars, taskVars>>

AddrFloor(type, a) ==
  /\ ~panicked
  /\ ret' = AddrRet("floor", type, a,
                    IF type = "VirtAddr" THEN VirtAddr_floor(a) ELSE PhysAddr_floor(a))
  /\ UNCHANGED panicked
  /\ AddrIdle

AddrCeil(type, a) ==
  /\ ~panicked
  /\ ret' = AddrRet("ceil", type, a,
                    IF type = "VirtAddr" THEN VirtAddr_ceil(a) ELSE PhysAddr_ceil(a))
  /\ UNCHANGED panicked
  /\ AddrIdle

AddrPageOffset(type, a) ==
  /\ ~panicked
  /\ ret' = AddrRet("page_offset", type, a,
                    IF type = "VirtAddr" THEN VirtAddr_page_offset(a)
                    ELSE PhysAddr_page_offset(a))
  /\ UNCHANGED panicked
  /\ AddrIdle

\* let n: VirtPageNum = a.into() and let n: PhysPageNum = a.into()
AddrInto(type, a) ==
  /\ ~panicked
  /\ LET r == IF type = "VirtAddr" THEN VirtPageNum_from_va(a) ELSE PhysPageNum_from_pa(a)
     IN  /\ ret' = AddrRet("into", type, a, r.val)
         /\ panicked' = r.panic
  /\ AddrIdle

AddrNext ==
  \E type \in AddrTypes, how \in {"usize", "page"}, u \in AddrWords :
    \/ AddrFloor(type, AddrMade(type, how, u))
    \/ AddrCeil(type, AddrMade(type, how, u))
    \/ AddrPageOffset(type, AddrMade(type, how, u))
    \/ AddrInto(type, AddrMade(type, how, u))

SpecAddr == Init /\ [][AddrNext]_vars

\* the address of a page number, by the conversion of its type
AddrOfPage(type, n) ==
  IF type = "VirtAddr" THEN VirtAddr_from_vpn(n) ELSE PhysAddr_from_ppn(n)
AddrOffset(type, a) ==
  IF type = "VirtAddr" THEN VirtAddr_page_offset(a) ELSE PhysAddr_page_offset(a)
\* the page-aligned addresses of the sample, and the one after each
AlignedAddrs ==
  {usize(u.hi, u.page, 0) : u \in AddrWords}
    \cup {usize_add(usize(u.hi, u.page, 0), PAGE_SIZE) :
            u \in {w \in AddrWords : w.hi < HI_SPACE - 1}}

\* C31: the address of floor(a) plus page_offset(a) is a; the address of
\* ceil(a) is page-aligned, not below a, less than a page above a, not
\* above any page-aligned address that is not below a, and a itself when a
\* is page-aligned.
C31_FloorCeil ==
  LET type == ret.arg[1]
      a == ret.arg[2]
  IN  /\ ret.op = "floor" =>
           /\ usize_add(AddrOfPage(type, ret.val), AddrOffset(type, a)) = a
           /\ AddrOffset(type, AddrOfPage(type, ret.val)) = 0
           /\ usize_le(AddrOfPage(type, ret.val), a)
      /\ ret.op = "ceil" =>
           LET c == AddrOfPage(type, ret.val)
           IN  /\ AddrOffset(type, c) = 0
               /\ usize_le(a, c)
               /\ c # a => ~usize_le(a, usize_sub(c, PAGE_SIZE))
               /\ \A b \in AlignedAddrs : usize_le(a, b) => usize_le(c, b)
               /\ AddrOffset(type, a) = 0 <=> c = a

\* ceil of a virtual address with a non-zero offset in the last page of
\* the 39-bit space: the boundary is 2^39
C31_Witness ==
  /\ ret.op = "ceil"
  /\ ret.arg[1] = "VirtAddr"
  /\ ret.arg[2].off # 0
  /\ ret.arg[2].page = VPN_SPACE - 1
  /\ ret.val = PageNum(1, 0)

\* C32: the conversion of an address to a page number fails exactly if the
\* address has a non-zero page offset, and gives floor otherwise.
C32_AlignedInto ==
  ret.op = "into" =>
    LET type == ret.arg[1]
        a == ret.arg[2]
    IN  /\ panicked <=> AddrOffset(type, a) # 0
        /\ ~panicked =>
             ret.val = Some(IF type = "VirtAddr" THEN VirtAddr_floor(a)
                            ELSE PhysAddr_floor(a))
        /\ panicked => ret.val = None

\* the conversion of an unaligned physical address has failed
C32_Witness ==
  /\ ret.op = "into"
  /\ panicked
  /\ ret.arg[1] = "PhysAddr"
  /\ ret.arg[2].off = PAGE_SIZE - 1
  /\ ret.arg[2].hi = PA_HI_SPACE - 1

(***************************************************************************)
(* Claims about the node frames of a page table.                           *)
(***************************************************************************)
\* the valid entries <<node, index>> of a node
ValidEntries(m, node) ==
  {<<node, i>> : i \in {j \in DOMAIN m[node] : is_valid(m[node][j])}}
\* the valid non-leaf entries of a table: those of its root (level 0) and
\* those of the nodes the root's entries point to (level 1)
NonLeafEntries(m, pt) ==
  LET level0 == ValidEntries(m, pt.root_ppn)
  IN  level0 \cup
        UNION {IF pte_ppn(m[e[1]][e[2]]) \in DOMAIN m
               THEN ValidEntries(m, pte_ppn(m[e[1]][e[2]])) ELSE {} : e \in level0}
NodeOf(m, e) == pte_ppn(ReadWord(m, e[1], e[2]))

\* C33: every valid non-leaf entry points to a frame of the table's frames,
\* no two of them point to the same frame, the frames are never fewer after
\* a step, unmap and translate leave the frames, the allocator and the
\* non-leaf entries alone, and every frame a map adds is the target of a
\* non-leaf entry that was invalid before or lies in a node the same map
\* added, one new frame for each such entry, while the entries that were
\* valid stay as they were.
C33_NodeFrames ==
  [][IsSome(page_table') =>
       LET pt == Unwrap(page_table')
           new == NonLeafEntries(mem', pt)
       IN  /\ \A e \in new : NodeOf(mem', e) \in Range(pt.frames)
           /\ \A e1, e2 \in new : NodeOf(mem', e1) = NodeOf(mem', e2) => e1 = e2
           /\ pt.root_ppn \notin {NodeOf(mem', e) : e \in new}
           /\ Cardinality(Range(pt.frames)) = Len(pt.frames)
           /\ Len(pt.frames) = Cardinality(new) + 1
           /\ IsSome(page_table) =>
                LET old_pt == Unwrap(page_table)
                    old == NonLeafEntries(mem, old_pt)
                IN  /\ SubSeq(pt.frames, 1, Len(old_pt.frames)) = old_pt.frames
                    /\ old \subseteq new
                    /\ \A e \in old : NodeOf(mem', e) = NodeOf(mem, e)
                    /\ ret'.op \in {"unmap", "translate"} =>
                         /\ pt = old_pt
                         /\ new = old
                         /\ FRAME_ALLOCATOR' = FRAME_ALLOCATOR
                    /\ ret'.op = "map" =>
                         /\ \A e \in new \ old :
                              e[1] \in Range(old_pt.frames)
                                => ~is_valid(ReadWord(mem, e[1], e[2]))
                         /\ {NodeOf(mem', e) : e \in new \ old}
                              = Range(pt.frames) \ Range(old_pt.frames)
                         /\ Len(pt.frames) - Len(old_pt.frames)
                              = (FRAME_ALLOCATOR'.current - FRAME_ALLOCATOR.current)
                                  + (Len(FRAME_ALLOCATOR.recycled)
                                       - Len(FRAME_ALLOCATOR'.recycled))]_vars

\* pages that share the first node of the walk and not the second have
\* been mapped, and one has been unmapped: the table keeps its four frames
C33_Witness ==
  /\ ~panicked
  /\ ret.op = "unmap"
  /\ IsSome(page_table)
  /\ Len(Unwrap(page_table).frames) >= 4
  /\ Cardinality({e \in NonLeafEntries(mem, Unwrap(page_table)) :
                    e[1] = Unwrap(page_table).root_ppn}) = 1

(***************************************************************************)
(* Map areas and the pages they map: MemorySet::push, MapArea::map_one and *)
(* MapArea::unmap_one on single pages of the applications' areas.          *)
(***************************************************************************)
\* the most pages that are unmapped at a time
MaxUnmappedPages == 1

\* the pages <<application, area, vpn>> whose handle has been removed
UnmappedPages ==
  UNION {UNION {{<<i, k, vpn>> :
                   vpn \in VpnsOf(apps[i].tcb.memory_set.areas[k])
                             \ DOMAIN apps[i].tcb.memory_set.areas[k].data_frames} :
                k \in {j \in DOMAIN apps[i].tcb.memory_set.areas :
                         apps[i].tcb.memory_set.areas[j].map_type = "Framed"}} :
         i \in DOMAIN apps}

AreaRet(i, k, vpn) ==
  [op |-> "unmap_one", arg |-> <<i, k, vpn>>, val |-> None, dirty |-> FALSE]

\* MapArea::unmap_one(page_table, vpn) on the k-th area of the i-th
\* application
AreaUnmapOne(i, k, vpn) ==
  /\ ~panicked
  /\ <<i, k, vpn>> \in UnmappedPages \/ Cardinality(UnmappedPages) < MaxUnmappedPages
  /\ LET ms == apps[i].tcb.memory_set
         w == unmap_one([a |-> FRAME_ALLOCATOR, mem |-> mem,
                         pt |-> ms.page_table, areas |-> ms.areas,
                         area |-> ms.areas[k], panic |-> FALSE],
                        vpn)
     IN
     /\ FRAME_ALLOCATOR' = w.a
     /\ mem' = w.mem
     /\ panicked' = w.panic
     /\ apps' = [apps EXCEPT ![i].tcb.memory_set.areas[k] = w.area]
  /\ ret' = AreaRet(i, k, vpn)
  /\ UNCHANGED <<v, test, page_table, tableVars, queueVars, cxVars, cellVars,
                 layout, KERNEL_SPACE>>

AreaNext ==
  \/ SpaceNewKernel
  \/ \E elf_data \in DropImages : DropTaskNew(elf_data)
  \/ \E i \in DOMAIN apps :
       \E k \in DOMAIN apps[i].tcb.memory_set.areas :
         \E vpn \in VpnsOf(apps[i].tcb.memory_set.areas[k]) : AreaUnmapOne(i, k, vpn)

SpecArea == InitSpace /\ [][AreaNext]_vars

\* the address spaces by owner: 0 is the kernel, i the i-th application
AreaSpaces(ks, ap) ==
  [id \in (IF IsSome(ks) THEN {0} ELSE {}) \cup DOMAIN ap |->
     IF id = 0 THEN Unwrap(ks) ELSE ap[id].tcb.memory_set]

\* what the page table pt says about the pages of area: an Identical page
\* is mapped to itself, a Framed page to the frame the area holds for it or,
\* when the area holds none, to nothing; the flags are the permission bits
\* and V
AreaMapped(a, m, pt, area) ==
  \A vpn \in VpnsOf(area) :
    LET t == translate(a, m, pt, vpn).val
    IN  IF area.map_type = "Framed" /\ vpn \notin DOMAIN area.data_frames
        THEN ~(IsSome(t) /\ is_valid(Unwrap(t)))
        ELSE /\ IsSome(t)
             /\ is_valid(Unwrap(t))
             /\ pte_flags(Unwrap(t)) = area.map_perm + PTE_V
             /\ pte_ppn(Unwrap(t)) = IF area.map_type = "Identical" THEN vpn
                                      ELSE area.data_frames[vpn]

\* C34: an Identical area maps every page of its range to itself and holds
\* no frames; a Framed area holds one allocated frame of its own for every
\* page of its range when it has been pushed, and the page table maps each
\* page to that frame; the leaf flags are the permission bits and V;
\* unmap_one on a page of a Framed area puts exactly that page's frame on
\* the recycle list, removes its handle, clears its entry and leaves the
\* other pages as they were.
C34_AreaPages ==
  [][~panicked' =>
       LET old == AreaSpaces(KERNEL_SPACE, apps)
           new == AreaSpaces(KERNEL_SPACE', apps')
       IN  /\ \A id \in DOMAIN new :
                \A k \in DOMAIN new[id].areas :
                  LET area == new[id].areas[k]
                  IN  /\ AreaMapped(FRAME_ALLOCATOR', mem', new[id].page_table, area)
                      /\ area.map_type = "Identical" => DOMAIN area.data_frames = {}
                      /\ area.map_type = "Framed" =>
                           /\ DOMAIN area.data_frames \subseteq VpnsOf(area)
                           /\ \A p1, p2 \in DOMAIN area.data_frames :
                                area.data_frames[p1] = area.data_frames[p2] => p1 = p2
                           /\ \A p \in DOMAIN area.data_frames :
                                /\ area.data_frames[p] >= init_frame_allocator(layout).current
                                /\ area.data_frames[p] < FRAME_ALLOCATOR'.current
                                /\ area.data_frames[p] \notin Recycled'
                           /\ (id \notin DOMAIN old \/ k > Len(old[id].areas))
                                => DOMAIN area.data_frames = VpnsOf(area)
           /\ ret'.op = "unmap_one" =>
                LET i == ret'.arg[1]
                    k == ret'.arg[2]
                    vpn == ret'.arg[3]
                    area == old[i].areas[k]
                IN  /\ area.map_type = "Framed"
                    /\ vpn \in DOMAIN area.data_frames
                    /\ FRAME_ALLOCATOR' =
                         [FRAME_ALLOCATOR EXCEPT
                            !.recycled = Append(@, area.data_frames[vpn])]
                    /\ new[i].areas[k] =
                         [area EXCEPT !.data_frames = BTreeMap_remove(@, vpn)]
                    /\ translate(FRAME_ALLOCATOR', mem', new[i].page_table, vpn).val
                         = Some(PageTableEntry_empty)
                    /\ new[i].page_table = old[i].page_table
                    /\ \A id \in DOMAIN old :
                         \A j \in DOMAIN old[id].areas :
                           (id # i \/ j # k) => new[id].areas[j] = old[id].areas[j]]_vars

\* a page of the second application's user stack has been unmapped while
\* both applications keep their other pages
C34_Witness ==
  /\ ~panicked
  /\ ret.op = "unmap_one"
  /\ Len(apps) = 2
  /\ ret.arg[1] = 2
  /\ Len(FRAME_ALLOCATOR.recycled) = 1
  /\ Cardinality(UnmappedPages) = 1

\* C35: when run_tasks switches from the idle flow into the task fetch gave,
\* the task is no longer in the ready queue, its status is Running, it is
\* the processor's current task and no other task's status has changed;
\* when fetch gives none, the processor, the statuses and the queue stay as
\* they are and there is no switch.
C35_DispatchSwitch ==
  [][RunTasks(FALSE) =>
       IF ready_queue # <<>>
       THEN LET task == Head(ready_queue)
            IN  /\ ~PROCESSOR'.idle
                /\ PROCESSOR'.current = Some(task)
                /\ task \notin Range(ready_queue')
                /\ tcbs[task].task_status = "Ready"
                /\ tcbs' = [tcbs EXCEPT ![task].task_status = "Running"]
                /\ ret'.val = Some(task)
       ELSE /\ PROCESSOR' = PROCESSOR
            /\ PROCESSOR'.idle
            /\ tcbs' = tcbs
            /\ ready_queue' = <<>>
            /\ ret'.val = None]_vars

\* a task runs that was fetched while one task waits and another has exited
C35_Witness ==
  /\ ret.op = "fetch"
  /\ IsSome(ret.val)
  /\ ~PROCESSOR.idle
  /\ tcbs[Unwrap(ret.val)].task_status = "Running"
  /\ \E t \in DOMAIN tcbs : tcbs[t].task_status = "Exited"
  /\ \E t \in Range(ready_queue) : tcbs[t].task_status = "Ready"

(***************************************************************************)
(* The dispatch loop under fairness: the idle flow keeps looping, and a    *)
(* task that was dispatched gives up the processor (it yields, is          *)
(* interrupted by the timer, or exits).                                    *)
(***************************************************************************)
SpecFair ==
  /\ InitSched
  /\ [][SchedNext]_vars
  /\ WF_vars(RunTasks(FALSE))
  /\ WF_vars(Suspend \/ Exit)

\* the number of dispatches of other tasks before the queued task t runs
Waits(q, t) == (CHOOSE k \in DOMAIN q : q[k] = t) - 1
ReadyTasks == {t \in DOMAIN tcbs : tcbs[t].task_status = "Ready"}

\* C36: every Ready task is eventually Running; the Ready tasks are those
\* in the ready queue, a Ready task among n waits for fewer than n
\* dispatches of other tasks, every dispatch of another task lowers that
\* number by one, and no other step changes it.
C36_NoStarvation ==
  /\ \A t \in 1 .. MaxTasks :
       (t \in ReadyTasks) ~> (PROCESSOR.current = Some(t) /\ tcbs[t].task_status = "Running")
  /\ [](/\ ReadyTasks = Range(ready_queue)
        /\ \A t \in ReadyTasks : Waits(ready_queue, t) <= Cardinality(ReadyTasks) - 1)
  /\ [][\A t \in ReadyTasks \cap ReadyTasks' :
          Waits(ready_queue', t) =
            Waits(ready_queue, t) - (IF RunTasks(FALSE) THEN 1 ELSE 0)]_vars

\* the fourth of four Ready tasks waits for three dispatches
C36_Witness ==
  /\ Len(ready_queue) = 4
  /\ PROCESSOR.idle
  /\ Waits(ready_queue, Last(ready_queue)) = 3
  /\ \E t \in DOMAIN tcbs : tcbs[t].task_status = "Ready" /\ ret.val = Some(t)

\* C37: during every call a trap handler makes, trap_return included, the
\* trap vector points to the kernel's handler; a handler that does not
\* panic ends in trap_return, which leaves the vector at the user entry;
\* the vector is at the user entry exactly while a task runs, and at the
\* kernel's handler before the first task and after a panic.
C37_TrapVector ==
  /\ Len(last_trap.vecs) = Len(last_trap.calls)
  /\ \A i \in DOMAIN last_trap.vecs : last_trap.vecs[i] = "kernel"
  /\ (~panicked /\ last_trap.calls # <<>>) =>
       /\ Last(last_trap.calls) = "trap_return"
       /\ stvec = "user"
  /\ stvec = "user" <=>
       /\ ~panicked
       /\ \E i \in DOMAIN TASK_MANAGER.tasks :
            TASK_MANAGER.tasks[i].task_status = "Running"
  /\ stvec # "user" => stvec = "kernel"

\* a timer interrupt has switched to another task, which runs in user mode
C37_Witness ==
  /\ ~panicked
  /\ last_trap.scause = "SupervisorTimer"
  /\ Len(last_trap.vecs) >= 3
  /\ stvec = "user"
  /\ TASK_MANAGER.current_task # 0

\* the k-th task table index in cyclic order after the current one
CyclicAfter(tm, k) == (tm.current_task + k) % tm.num_app
IsReady(tm, id) == tm.tasks[id].task_status = "Ready"

\* C38: when a handler runs run_next_task, on the table in which the
\* current task has been marked Ready or Exited: if some task is Ready the
\* kernel does not halt and the task switched to is the first Ready one in
\* the cyclic order current + 1, ..., current, was not Running or Exited,
\* and is the current task itself only if no other task is Ready; if no
\* task is Ready the kernel halts in run_next_task's panic and the table is
\* left as it is; find_next_task gives that task, or None.
C38_FindNextTask ==
  [][LET calls == Range(last_trap'.calls)
         runs == {"suspend_current_and_run_next", "exit_current_and_run_next"}
         tm == IF "suspend_current_and_run_next" \in calls
               THEN mark_current_suspended(TASK_MANAGER)
               ELSE mark_current_exited(TASK_MANAGER)
         n == tm.num_app
         next == TASK_MANAGER'.current_task
     IN  calls \cap runs # {} =>
           IF \E id \in 0 .. n - 1 : IsReady(tm, id)
           THEN /\ ~panicked'
                /\ find_next_task(tm) = Some(next)
                /\ IsReady(tm, next)
                /\ \E k \in 1 .. n :
                     /\ next = CyclicAfter(tm, k)
                     /\ \A j \in 1 .. k - 1 : ~IsReady(tm, CyclicAfter(tm, j))
                /\ next = tm.current_task =>
                     \A id \in 0 .. n - 1 : id # next => ~IsReady(tm, id)
                /\ TASK_MANAGER'.tasks[next].task_status = "Running"
                /\ \A id \in 0 .. n - 1 :
                     id # next =>
                       TASK_MANAGER'.tasks[id].task_status = tm.tasks[id].task_status
           ELSE /\ panicked'
                /\ find_next_task(tm) = None
                /\ Last(last_trap'.calls) = "panic"
                /\ TASK_MANAGER' = tm]_vars

\* a timer interrupt of task 0 has switched to task 2 over the exited
\* task 1
C38_Witness ==
  /\ ~panicked
  /\ last_trap.scause = "SupervisorTimer"
  /\ TASK_MANAGER.num_app = 3
  /\ TASK_MANAGER.current_task = 2
  /\ TASK_MANAGER.tasks[1].task_status = "Exited"
  /\ TASK_MANAGER.tasks[0].task_status = "Ready"

(***************************************************************************)
(* The StackFrameAllocator with a caller that keeps the frames it was      *)
(* given in v and may pass any page number to dealloc.                     *)
(***************************************************************************)
ApiAlloc ==
  /\ ~panicked
  /\ LET r == alloc(FRAME_ALLOCATOR) IN
       /\ FRAME_ALLOCATOR' = r.a
       /\ v' = v \o r.ppn
       /\ ret' = [op |-> "alloc", arg |-> 0, val |-> r.ppn, dirty |-> FALSE]
  /\ UNCHANGED <<mem, test, page_table, panicked, taskVars>>

ApiDealloc(ppn) ==
  /\ ~panicked
  /\ LET r == dealloc(FRAME_ALLOCATOR, ppn) IN
       /\ FRAME_ALLOCATOR' = r.a
       /\ panicked' = r.panic
       /\ v' = IF r.panic THEN v ELSE SelectSeq(v, LAMBDA x : x # ppn)
       /\ ret' = [op |-> "dealloc", arg |-> ppn, val |-> None, dirty |-> FALSE]
  /\ UNCHANGED <<mem, test, page_table, taskVars>>

ApiNext ==
  \/ ApiAlloc
  \/ \E ppn \in (PoolStart - 1) .. PoolEnd : ApiDealloc(ppn)

SpecApi == Init /\ [][ApiNext]_vars

\* the invariant of the allocator for the live frames live
AllocatorInvariant(a, live) ==
  /\ PoolStart <= a.current
  /\ a.current <= a.end
  /\ \A i \in DOMAIN a.recycled :
       a.recycled[i] >= PoolStart /\ a.recycled[i] < a.current
  /\ \A i, j \in DOMAIN a.recycled : a.recycled[i] = a.recycled[j] => i = j
  /\ Len(live) + Len(a.recycled) = a.current - PoolStart

C39_HandleInvariant ==
  ~panicked => AllocatorInvariant(FRAME_ALLOCATOR, LiveHandles)

(***************************************************************************)
(* User buffers: PageTable::from_token and translated_byte_buffer          *)
(* (os/src/mm/page_table.rs), called with the token of a task's space.     *)
(***************************************************************************)
\* a faulty from_token that takes the root frame into its frames
PageTable_from_token_owning(satp) ==
  [root_ppn |-> satp.ppn, frames |-> <<satp.ppn>>]

\* PageTable::from_token: the low 44 bits of satp are the root page number
PageTable_from_token(satp) == [root_ppn |-> satp.ppn, frames |-> <<>>]

usize_min(u1, u2) == IF usize_le(u1, u2) THEN u1 ELSE u2

\* the loop of translated_byte_buffer: the vector gets one slice
\* <<ppn, from, to>> of a physical page for each page of [start, end)
RECURSIVE translated_byte_buffer_loop(_, _, _, _, _, _)
\* one turn of the loop: t is what translate gave for the page of start
translated_byte_buffer_turn(a, m, pt, start_va, end, slices, t) ==
  IF ~IsSome(t.val) THEN [panic |-> TRUE, v |-> slices]
  ELSE LET end_va == usize_min(VirtAddr_of_vpn(floor(start_va) + 1),
                               VirtAddr_from(end))
       IN  translated_byte_buffer_loop(
             a, m, pt, end_va, end,
             Append(slices,
                    [ppn |-> pte_ppn(Unwrap(t.val)),
                     from |-> VirtAddr_page_offset(start_va),
                     to |-> IF VirtAddr_page_offset(end_va) = 0 THEN PAGE_SIZE
                            ELSE VirtAddr_page_offset(end_va)]))

translated_byte_buffer_loop(a, m, pt, start, end, slices) ==
  IF usize_le(end, start) THEN [panic |-> FALSE, v |-> slices]
  ELSE translated_byte_buffer_turn(
         a, m, pt, VirtAddr_from(start), end, slices,
         translate(a, m, pt, floor(VirtAddr_from(start))))

\* the end of translated_byte_buffer: r is what the loop gave; the
\* temporary page table is dropped
translated_byte_buffer_end(a, pt, r) ==
  IF r.panic
  THEN [a |-> a, panic |-> TRUE, v |-> r.v, page_table |-> pt]
  ELSE [a |-> drop_frames(a, pt.frames).a,
        panic |-> drop_frames(a, pt.frames).panic,
        v |-> r.v, page_table |-> pt]

\* translated_byte_buffer(token, ptr, len)
translated_byte_buffer(a, m, satp, ptr, len) ==
  translated_byte_buffer_end(
    a, PageTable_from_token(satp),
    translated_byte_buffer_loop(a, m, PageTable_from_token(satp),
                                ptr, usize_add(ptr, len), <<>>))

\* the buffers the applications pass: on mapped pages, on an unmapped page
\* next to them, and on a page no node of the table covers
BufPages == {0, UserBasePage, UserBasePage + 1, PTE_PER_PAGE * PTE_PER_PAGE}
BufOffs == {0, 8}
BufLens == {0, 8, PAGE_SIZE, PAGE_SIZE + 8}

SetBuf(r, i, ptr, len) ==
  /\ FRAME_ALLOCATOR' = r.a
  /\ panicked' = r.panic
  /\ ret' = [op |-> "translated_byte_buffer", arg |-> <<i, ptr, len>>,
             val |-> [v |-> r.v, page_table |-> r.page_table], dirty |-> FALSE]

\* the kernel translates a buffer of the i-th application
BufTranslate(i, ptr, len) ==
  /\ ~panicked
  /\ i \in DOMAIN apps
  /\ SetBuf(translated_byte_buffer(FRAME_ALLOCATOR, mem,
                                   token(apps[i].tcb.memory_set.page_table),
                                   ptr, len),
            i, ptr, len)
  /\ UNCHANGED <<mem, v, test, page_table, taskVars>>

BufNext ==
  \/ SpaceNewKernel
  \/ \E elf_data \in DropImages : DropTaskNew(elf_data)
  \/ \E i \in DOMAIN apps, page \in BufPages, off \in BufOffs, len \in BufLens :
       BufTranslate(i, usize(0, page, off), len)

SpecBuf == InitSpace /\ [][BufNext]_vars

\* the pages the buffer of len bytes at ptr lies on
BufPagesOf(ptr, len) ==
  IF len = 0 THEN {}
  ELSE floor(ptr) .. floor(usize_add(ptr, len - 1))

\* C40: the page table translated_byte_buffer makes from a task's token
\* has the task's root page and no frames; the call, with the drop of that
\* table at its end, leaves the allocator, the memory, the task's page
\* table with its frames and every address space as they were, whether it
\* succeeds or fails; when it succeeds it gives one slice for each page of
\* the buffer, on the frame the task's table maps the page to, and the
\* slices have the length of the buffer together.
C40_TemporaryTable ==
  [][ret'.op = "translated_byte_buffer" =>
       LET i == ret'.arg[1]
           ptr == ret'.arg[2]
           len == ret'.arg[3]
           pt == apps[i].tcb.memory_set.page_table
           temp == ret'.val.page_table
           slices == ret'.val.v
       IN  /\ temp.root_ppn = pt.root_ppn
           /\ temp.frames = <<>>
           /\ FRAME_ALLOCATOR' = FRAME_ALLOCATOR
           /\ mem' = mem
           /\ apps' = apps
           /\ KERNEL_SPACE' = KERNEL_SPACE
           /\ pt.root_ppn \in Range(apps'[i].tcb.memory_set.page_table.frames)
           /\ pt.root_ppn \notin Recycled'
           /\ AllHandles' = AllHandles
           /\ panicked' <=>
                \E p \in BufPagesOf(ptr, len) :
                  ~IsSome(translate(FRAME_ALLOCATOR, mem, pt, p).val)
           /\ ~panicked' =>
                /\ Len(slices) = Cardinality(BufPagesOf(ptr, len))
                /\ \A k \in DOMAIN slices :
                     /\ slices[k].ppn =
                          pte_ppn(Unwrap(translate(FRAME_ALLOCATOR, mem, pt,
                                                   floor(ptr) + k - 1).val))
                     /\ slices[k].from = (IF k = 1 THEN ptr.off ELSE 0)
                     /\ slices[k].from < slices[k].to
                /\ len > 0 =>
                     (Len(slices) - 1) * PAGE_SIZE + slices[Len(slices)].to
                       = ptr.off + len]_vars

\* a buffer of the second application that crosses a page boundary has
\* been translated into two slices on two of the application's frames
C40_Witness ==
  /\ ~panicked
  /\ ret.op = "translated_byte_buffer"
  /\ ret.arg[1] = 2
  /\ Len(ret.val.v) = 2
  /\ ret.val.v[1].ppn # ret.val.v[2].ppn
  /\ \A k \in {1, 2} :
       \E h \in Handles(2, apps[2].tcb.memory_set) : h[4] = ret.val.v[k].ppn

====
